---- MODULE Spec2Model ----
(* HealthGuard edge node: the record store, the synchronisation cycle       *)
(* sync_now run by the periodic task and by the manual trigger (Spec), one  *)
(* delivery attempt with its response (SpecAttempt), the collection loop    *)
(* with start_collection and stop_collection (SpecCollection), lifespan     *)
(* with the collection loop and the periodic task it starts and stops       *)
(* (SpecLifespan), one reader object, MockSensor or PPGSensor (SpecSensor), *)
(* the batch payload over records with their content (SpecPayload), the     *)
(* audit write with the duration (SpecAudit), start_collection and          *)
(* stop_collection called in any order (SpecStartStop), the request over    *)
(* the delivery attempts of a cycle (SpecRequest), and the periodic task    *)
(* running without end under weak fairness (SpecLive).                      *)
(* Every await of the code is one step.                                     *)
EXTENDS Integers, Sequences, FiniteSets, TLC

(* ---------------------------------------------------------------------- *)
(* Bounds of the model                                                      *)
(* ---------------------------------------------------------------------- *)
\* rows the collection loop inserts
MaxRecords == 3
\* distinct capture timestamps
MaxTs == 3
\* calls of sync_now, over both tasks
MaxInvocations == 2
\* settings.SYNC_BATCH_SIZE (configurable, default 100), scaled to the rows
SYNC_BATCH_SIZE == 2
\* rows of the store in which one delivery attempt is examined
MaxAttemptRows == 2
\* read() calls on one reader object
MaxReads == 1
\* initialize() calls on one reader object
MaxInits == 2
\* shutdown() calls on one reader object
MaxShutdowns == 3
\* start_collection calls made while a reader or a loop task is held
MaxRestarts == 1
\* readings of the millisecond clock
MaxClock == 2
\* audit entries kept as history in runs without end
MaxAuditKept == 1

(* ---------------------------------------------------------------------- *)
(* Program constants                                                        *)
(* ---------------------------------------------------------------------- *)
MAX_RETRIES == 3
BACKOFF_BASE == 2

SuccessCodes == {200, 201, 202}
StatusCodes == {200, 201, 202, 204, 500}

Tasks == {"periodic", "manual"}

None == "None"
ErrExhausted == "All retry attempts exhausted"
ExcSelect == "exception: select"
ExcLogEmpty == "exception: audit write (empty path)"
ExcPost == "exception: post"
ExcUpdate == "exception: update"
ExcCommit == "exception: commit"

VARIABLES
    vital_readings,  \* the vital_readings table; the row id is the index
    sync_logs,       \* the sync_logs table, in insertion order
    cyc,             \* per task: the locals of its current sync_now call
    accepted,        \* history: ids of the records of a batch the remote accepted
    coll,            \* sensor_manager: the globals, the sensor, the loop task
    input,           \* the response handed to one delivery attempt
    sensor,          \* a SensorReader object: MockSensor or PPGSensor
    patients,        \* the patients table; the row id is the index
    life,            \* lifespan: its position, the schema, _sync_task
    payload          \* payload_data built by sync_now from its batch

vars == <<vital_readings, sync_logs, cyc, accepted, coll, input,
          sensor, patients, life, payload>>

(* ---------------------------------------------------------------------- *)
(* Helpers                                                                  *)
(* ---------------------------------------------------------------------- *)
Range(s) == {s[i] : i \in DOMAIN s}

Min(a, b) == IF a <= b THEN a ELSE b

Max(a, b) == IF a >= b THEN a ELSE b

RECURSIVE Pow(_, _)
Pow(b, e) == IF e = 0 THEN 1 ELSE b * Pow(b, e - 1)

(* Capture timestamps (SensorData.timestamp, a wall-clock reading): any     *)
(* value, the wall clock need not be monotonic across inserts.              *)
Timestamps == 1..MaxTs

(* Responses of one POST: an HTTP status, a network-level httpx.HTTPError,  *)
(* or another exception raised while setting the request up.                *)
Responses ==
    [kind : {"status"}, code : StatusCodes]
        \cup {[kind |-> "HTTPError", code |-> 0], [kind |-> "Exception", code |-> 0]}

NoResult == [status |-> "none", records_sent |-> 0, error |-> None]

(* ---------------------------------------------------------------------- *)
(* The store                                                                *)
(* ---------------------------------------------------------------------- *)
(* VitalReading(..., synced=False): synced_at is nullable and has no        *)
(* default; {} is NULL, {t} the timestamp t.                                *)
NewReading(ts) == [timestamp |-> ts, synced |-> FALSE, synced_at |-> {}]

Unsynced(rs) == {i \in DOMAIN rs : rs[i].synced = FALSE}

OrderedByTimestamp(rs, s) ==
    \A i, j \in DOMAIN s : i < j => rs[s[i]].timestamp <= rs[s[j]].timestamp

(* All orders ORDER BY timestamp may return the rows of S in (ties are      *)
(* broken by the store).                                                    *)
Orderings(rs, S) ==
    {s \in [1..Cardinality(S) -> S] :
        /\ \A i, j \in DOMAIN s : i # j => s[i] # s[j]
        /\ OrderedByTimestamp(rs, s)}

Limit(s, n) == SubSeq(s, 1, Min(Len(s), n))

(* Mutant: the ORDER BY is dropped, the rows come in insertion order. *)
MutSelectInsertionOrder(rs) ==
    {Limit(s, SYNC_BATCH_SIZE) :
        s \in {q \in [1..Cardinality(Unsynced(rs)) -> Unsynced(rs)] :
                    \A i, j \in DOMAIN q : i < j => q[i] < q[j]}}

(* Mutant: ORDER BY timestamp DESC, the newest rows come first. *)
MutSelectNewestFirst(rs) ==
    {Limit(s, SYNC_BATCH_SIZE) :
        s \in {q \in [1..Cardinality(Unsynced(rs)) -> Unsynced(rs)] :
                    /\ \A i, j \in DOMAIN q : i # j => q[i] # q[j]
                    /\ \A i, j \in DOMAIN q :
                            i < j => rs[q[i]].timestamp >= rs[q[j]].timestamp}}

(* select(VitalReading).where(synced == False).order_by(timestamp).limit(N) *)
SelectUnsyncedBatch(rs) ==
    {Limit(s, SYNC_BATCH_SIZE) : s \in Orderings(rs, Unsynced(rs))}

(* Mutant: the update rewrites the flag of every row from the id list. *)
MutMarkSyncedResetOthers(rs, ids, at) ==
    [i \in DOMAIN rs |->
        IF i \in ids THEN [rs[i] EXCEPT !.synced = TRUE, !.synced_at = {at}]
        ELSE [rs[i] EXCEPT !.synced = FALSE, !.synced_at = {}]]

(* Mutant: the update sets synced and forgets synced_at. *)
MutMarkSyncedFlagOnly(rs, ids, at) ==
    [i \in DOMAIN rs |-> IF i \in ids THEN [rs[i] EXCEPT !.synced = TRUE] ELSE rs[i]]

(* Mutant: the update has no WHERE clause. *)
MutMarkSyncedAll(rs, ids, at) ==
    [i \in DOMAIN rs |-> [rs[i] EXCEPT !.synced = TRUE, !.synced_at = {at}]]

(* Mutant: the update also rewrites the capture timestamp. *)
MutMarkSyncedTouchesTimestamp(rs, ids, at) ==
    [i \in DOMAIN rs |->
        IF i \in ids THEN [rs[i] EXCEPT !.synced = TRUE, !.synced_at = {at},
                                        !.timestamp = MaxTs]
        ELSE rs[i]]

(* update(VitalReading).where(id.in_(ids)).values(synced=True, synced_at=at) *)
MarkSynced(rs, ids, at) ==
    [i \in DOMAIN rs |->
        IF i \in ids THEN [rs[i] EXCEPT !.synced = TRUE, !.synced_at = {at}]
        ELSE rs[i]]

(* SyncLog(records_sent, status, error_message); inv is a history field:    *)
(* the invocation that wrote the row.                                       *)
LogEntry(inv, n, st, err) ==
    [inv |-> inv, records_sent |-> n, status |-> st, error_message |-> err]

(* ---------------------------------------------------------------------- *)
(* sync_now                                                                 *)
(* ---------------------------------------------------------------------- *)
InitCycle ==
    [pc |-> "idle", n |-> 0, readings |-> <<>>, attempt |-> 0, sent |-> FALSE,
     records_sent |-> 0, status |-> "success", error_msg |-> None,
     at |-> {}, trace |-> <<>>, result |-> NoResult]

Inv(t) == <<t, cyc[t].n>>

(* Number of sync_now calls entered so far, over all tasks. *)
Started == cyc["periodic"].n + cyc["manual"].n

(* The end of a sync_now call: how it ended and what the caller received.   *)
(* The locals of a call that returned or raised are kept as the history of  *)
(* that call until the task's next call; a cancelled task is gone.          *)
Ended(c, how, res) ==
    IF how = "cancelled" THEN [InitCycle EXCEPT !.pc = how, !.n = c.n]
    ELSE [c EXCEPT !.pc = how, !.result = res, !.at = {}]

Set(t, c) == cyc' = [cyc EXCEPT ![t] = c]

(* Mutant: the handler forgets what was delivered. *)
MutExceptResetsCount(c, exc) ==
    [c EXCEPT !.status = "failed", !.error_msg = exc, !.records_sent = 0, !.pc = "log"]

(* except Exception as exc: status = "failed"; error_msg = str(exc); then   *)
(* the audit write at the end of sync_now.                                  *)
Except(c, exc) == [c EXCEPT !.status = "failed", !.error_msg = exc, !.pc = "log"]

(* Mutant: only 200 counts as delivered. *)
MutIsSuccessOnly200(resp) == resp.kind = "status" /\ resp.code = 200

(* Mutant: every 2xx status counts as delivered. *)
MutIsSuccessAny2xx(resp) == resp.kind = "status" /\ resp.code \in 200..299

(* response.status_code in (200, 201, 202) *)
IsSuccess(resp) == resp.kind = "status" /\ resp.code \in SuccessCodes

(* Mutant: off by one, a sleep and a retry follow the last attempt. *)
MutRetryRemainsInclusive(attempt) == attempt <= MAX_RETRIES

(* if attempt < MAX_RETRIES: sleep, else the for loop ends *)
RetryRemains(attempt) == attempt < MAX_RETRIES

(* Mutant: the backoff does not grow. *)
MutBackoffConstant(attempt) == BACKOFF_BASE

(* backoff = BACKOFF_BASE ** attempt *)
BackoffSeconds(attempt) == Pow(BACKOFF_BASE, attempt)

(* The state of sensor_manager before start_collection: both module        *)
(* globals are None, no reader exists and no loop task.  call is the        *)
(* position of the start_collection or stop_collection call in progress or  *)
(* last ended, loop the position of the task running _collection_loop,      *)
(* must_cancel the pending cancel() of that task, available the reader's    *)
(* _available flag, data the reading in hand between read and persist.      *)
(* patient_id is the id of the patient the loop task holds.  untracked are  *)
(* the loop tasks that run while _collection_task names another task,       *)
(* unreleased counts the readers _active_reader named and no longer names   *)
(* that were never shut down.                                               *)
(* History: shutdowns counts the shutdown() calls of the stop_collection    *)
(* call in progress or last ended, logged is set when the iteration took    *)
(* the except branch, prev_logged when the iteration before it did.         *)
InitColl ==
    [call |-> "none", active_reader |-> None, collection_task |-> None,
     loop |-> "none", must_cancel |-> FALSE, available |-> FALSE,
     data |-> {}, logged |-> FALSE, prev_logged |-> FALSE, shutdowns |-> 0,
     patient_id |-> None, untracked |-> <<>>, unreleased |-> 0]

(* No reader object is being examined. *)
NoSensor == [variant |-> "none"]

(* lifespan has not been entered: no schema, _sync_task is None. *)
InitLife == [pc |-> "init_db", schema |-> FALSE, sync_task |-> None]

(* No payload has been built. *)
NoPayload == [device_id |-> None]

(* No delivery attempt is being examined. *)
NoInput == [kind |-> "none", code |-> 0]

Init ==
    /\ vital_readings = <<>>
    /\ sync_logs = <<>>
    /\ cyc = [t \in Tasks |-> InitCycle]
    /\ accepted = {}
    /\ coll = InitColl
    /\ input = NoInput
    /\ sensor = NoSensor
    /\ patients = <<>>
    /\ life = InitLife
    /\ payload = NoPayload

(* The collection loop's _persist_reading: insert one row and commit. *)
Persist ==
    /\ Len(vital_readings) < MaxRecords
    /\ \E ts \in Timestamps : vital_readings' = Append(vital_readings, NewReading(ts))
    /\ UNCHANGED <<sync_logs, cyc, accepted, coll, input,
                 sensor, patients, life, payload>>

(* Mutant: the trigger fires on a timer, whether or not the call before has *)
(* ended.                                                                   *)
MutStartWhileRunning(t) ==
    /\ cyc[t].pc # "cancelled"
    /\ Started < MaxInvocations
    /\ Set(t, [InitCycle EXCEPT !.pc = "select", !.n = cyc[t].n + 1])
    /\ UNCHANGED <<vital_readings, sync_logs, accepted, coll, input,
                 sensor, patients, life, payload>>

(* Mutant: _periodic_sync has no except clause, an exception that escapes   *)
(* sync_now ends the task.                                                   *)
MutStartNotAfterRaise(t) ==
    /\ cyc[t].pc \in {"idle", "returned"}
    /\ Started < MaxInvocations
    /\ Set(t, [InitCycle EXCEPT !.pc = "select", !.n = cyc[t].n + 1])
    /\ UNCHANGED <<vital_readings, sync_logs, accepted, coll, input,
                 sensor, patients, life, payload>>

(* _periodic_sync wakes from its sleep, or POST /api/system/sync arrives:   *)
(* sync_now is entered and its locals are initialised.                      *)
Start(t) ==
    /\ cyc[t].pc \in {"idle", "returned", "raised"}
    /\ Started < MaxInvocations
    /\ Set(t, [InitCycle EXCEPT !.pc = "select", !.n = cyc[t].n + 1])
    /\ UNCHANGED <<vital_readings, sync_logs, accepted, coll, input,
                 sensor, patients, life, payload>>

(* Mutant: the early return of the empty batch is missing. *)
MutAfterSelectNoEmptyCheck(c, b) == [c EXCEPT !.readings = b, !.attempt = 1, !.pc = "post"]

(* readings = result.scalars().all(); if not readings: the early audit     *)
(* write, else the retry loop starts with attempt 1.                        *)
AfterSelect(c, b) ==
    IF b = <<>> THEN [c EXCEPT !.readings = b, !.pc = "log_empty"]
    ELSE [c EXCEPT !.readings = b, !.attempt = 1, !.pc = "post"]

(* Fetch the unsynced batch; an empty batch goes to the early audit write,  *)
(* a non-empty one to the first delivery attempt (the payload, signature    *)
(* and headers are computed from it without suspension).                    *)
Select(t) ==
    /\ cyc[t].pc = "select"
    /\ \/ \E b \in SelectUnsyncedBatch(vital_readings) : Set(t, AfterSelect(cyc[t], b))
       \/ Set(t, Except(cyc[t], ExcSelect))
    /\ UNCHANGED <<vital_readings, sync_logs, accepted, coll, input,
                 sensor, patients, life, payload>>

(* if not readings: _log_sync(session, 0, "success", None, duration) and    *)
(* return; a failing write is caught by the handler of sync_now.            *)
LogEmpty(t) ==
    /\ cyc[t].pc = "log_empty"
    /\ \/ /\ sync_logs' = Append(sync_logs, LogEntry(Inv(t), 0, "success", None))
          /\ Set(t, Ended(cyc[t], "returned",
                           [status |-> "success", records_sent |-> 0, error |-> None]))
       \/ /\ Set(t, Except(cyc[t], ExcLogEmpty))
          /\ UNCHANGED sync_logs
    /\ UNCHANGED <<vital_readings, accepted, coll, input,
                 sensor, patients, life, payload>>

(* Mutant: a delivered batch is counted as a full batch. *)
MutAfterPostCountsBatchSize(c, resp) ==
    LET d == [c EXCEPT !.trace = Append(@, <<"post">>)]
    IN  IF resp.kind = "Exception" THEN Except(d, ExcPost)
        ELSE IF IsSuccess(resp)
        THEN [d EXCEPT !.sent = TRUE, !.records_sent = SYNC_BATCH_SIZE,
                       !.pc = "update"]
        ELSE IF RetryRemains(c.attempt) THEN [d EXCEPT !.pc = "backoff"]
        ELSE [d EXCEPT !.status = "failed", !.error_msg = ErrExhausted,
                       !.pc = "log"]

(* The cycle after one POST that answered resp. *)
AfterPost(c, resp) ==
    LET d == [c EXCEPT !.trace = Append(@, <<"post">>)]
    IN  IF resp.kind = "Exception" THEN Except(d, ExcPost)
        ELSE IF IsSuccess(resp)
        THEN [d EXCEPT !.sent = TRUE, !.records_sent = Len(c.readings),
                       !.pc = "update"]
        ELSE IF RetryRemains(c.attempt) THEN [d EXCEPT !.pc = "backoff"]
        ELSE [d EXCEPT !.status = "failed", !.error_msg = ErrExhausted,
                       !.pc = "log"]

(* History: the remote answered a success status to the batch. *)
RemoteAccepts(resp) == resp.kind = "status" /\ resp.code \in {200, 201, 202}

(* One delivery attempt of the retry loop. *)
Post(t) ==
    /\ cyc[t].pc = "post"
    /\ \E resp \in Responses :
        /\ Set(t, AfterPost(cyc[t], resp))
        /\ accepted' = IF RemoteAccepts(resp)
                       THEN accepted \cup Range(cyc[t].readings)
                       ELSE accepted
    /\ UNCHANGED <<vital_readings, sync_logs, coll, input,
                 sensor, patients, life, payload>>

(* The cycle after the backoff sleep of a failed attempt. *)
AfterBackoff(c) ==
    [c EXCEPT !.trace = Append(@, <<"sleep", BackoffSeconds(c.attempt)>>),
              !.attempt = @ + 1,
              !.pc = "post"]

(* await asyncio.sleep(backoff), then the next iteration of the loop. *)
Backoff(t) ==
    /\ cyc[t].pc = "backoff"
    /\ Set(t, AfterBackoff(cyc[t]))
    /\ UNCHANGED <<vital_readings, sync_logs, accepted, coll, input,
                 sensor, patients, life, payload>>

(* datetime.now(timezone.utc) in the update statement: the instant the     *)
(* statement is built, named by the invocation that builds it (one event   *)
(* loop builds no two statements at the same instant).                     *)
Now(t) == Inv(t)

(* if sent: session.execute(update ...): the statement runs inside the      *)
(* session's transaction, its timestamp taken when the statement is built.  *)
Update(t) ==
    /\ cyc[t].pc = "update"
    /\ \/ Set(t, [cyc[t] EXCEPT !.at = {Now(t)}, !.pc = "commit"])
       \/ Set(t, Except(cyc[t], ExcUpdate))
    /\ UNCHANGED <<vital_readings, sync_logs, accepted, coll, input,
                 sensor, patients, life, payload>>

(* Mutant: the update marks every unsynced row, not the rows of the batch. *)
MutCommittedAllUnsynced(rs, c) ==
    LET ts == CHOOSE x \in c.at : TRUE
    IN  MarkSynced(rs, Unsynced(rs), ts)

(* Mutant: the update is made record by record and the commit comes after  *)
(* the first.                                                               *)
MutCommittedFirstOnly(rs, c) ==
    LET ts == CHOOSE x \in c.at : TRUE
    IN  MarkSynced(rs, {c.readings[1]}, ts)

(* The rows after the commit of the update of cycle c. *)
Committed(rs, c) ==
    LET ts == CHOOSE x \in c.at : TRUE
    IN  MarkSynced(rs, Range(c.readings), ts)

(* session.commit(): the update becomes visible, or the commit raises and   *)
(* the session is rolled back.                                              *)
Commit(t) ==
    /\ cyc[t].pc = "commit"
    /\ \/ /\ vital_readings' = Committed(vital_readings, cyc[t])
          /\ Set(t, [cyc[t] EXCEPT !.pc = "log"])
       \/ /\ Set(t, Except(cyc[t], ExcCommit))
          /\ UNCHANGED vital_readings
    /\ UNCHANGED <<sync_logs, accepted, coll, input,
                 sensor, patients, life, payload>>

(* The row written by the audit write at the end of sync_now. *)
FinalEntry(t) ==
    LogEntry(Inv(t), cyc[t].records_sent, cyc[t].status, cyc[t].error_msg)

(* The audit write at the end of sync_now and the return of the SyncResult; *)
(* a failing write raises out of sync_now.                                  *)
Log(t) ==
    /\ cyc[t].pc = "log"
    /\ \/ /\ sync_logs' = Append(sync_logs, FinalEntry(t))
          /\ Set(t, Ended(cyc[t], "returned",
                           [status |-> cyc[t].status,
                            records_sent |-> cyc[t].records_sent,
                            error |-> cyc[t].error_msg]))
       \/ /\ Set(t, Ended(cyc[t], "raised", NoResult))
          /\ UNCHANGED sync_logs
    /\ UNCHANGED <<vital_readings, accepted, coll, input,
                 sensor, patients, life, payload>>

(* Mutant: the cancelled cycle flushes its pending mark-synced update. *)
MutCancelFlushesUpdate ==
    /\ cyc["periodic"].pc \notin {"cancelled"}
    /\ Set("periodic", Ended(cyc["periodic"], "cancelled", NoResult))
    /\ vital_readings' = IF cyc["periodic"].pc = "commit"
                         THEN Committed(vital_readings, cyc["periodic"])
                         ELSE vital_readings
    /\ UNCHANGED <<sync_logs, accepted, coll, input,
                 sensor, patients, life, payload>>

(* Shutdown: _sync_task.cancel(); CancelledError is raised at the await the *)
(* periodic task is suspended in and is not caught by except Exception.     *)
Cancel ==
    /\ cyc["periodic"].pc \notin {"cancelled"}
    /\ Set("periodic", Ended(cyc["periodic"], "cancelled", NoResult))
    /\ UNCHANGED <<vital_readings, sync_logs, accepted, coll, input,
                 sensor, patients, life, payload>>

Next ==
    \/ Persist
    \/ \E t \in Tasks : Start(t)
    \/ \E t \in Tasks : Select(t)
    \/ \E t \in Tasks : LogEmpty(t)
    \/ \E t \in Tasks : Post(t)
    \/ \E t \in Tasks : Backoff(t)
    \/ \E t \in Tasks : Update(t)
    \/ \E t \in Tasks : Commit(t)
    \/ \E t \in Tasks : Log(t)
    \/ Cancel

Spec == Init /\ [][Next]_vars

(* ---------------------------------------------------------------------- *)
(* One delivery attempt of the retry loop, examined with its response       *)
(* ---------------------------------------------------------------------- *)
(* What the retry loop has done when it enters attempt a: a - 1 failed      *)
(* POSTs, each followed by its backoff sleep.                               *)
TraceBefore(a) ==
    [j \in 1..(2 * (a - 1)) |->
        IF j % 2 = 1 THEN <<"post">> ELSE <<"sleep", Pow(BACKOFF_BASE, j \div 2)>>]

(* Stores with unsynced rows for a cycle to select from. *)
AttemptStores ==
    UNION {[1..n -> {NewReading(ts) : ts \in Timestamps}] : n \in 1..MaxAttemptRows}

(* A call of sync_now inside the retry loop, about to POST attempt a of the *)
(* batch b it selected.                                                     *)
InAttempt(n, b, a) ==
    [InitCycle EXCEPT !.pc = "post", !.n = n, !.readings = b, !.attempt = a,
                      !.trace = TraceBefore(a)]

(* Any call of sync_now at any attempt of its retry loop, and any response. *)
InitAttempt ==
    /\ vital_readings \in AttemptStores
    /\ sync_logs = <<>>
    /\ \E t \in Tasks : \E b \in SelectUnsyncedBatch(vital_readings) :
        \E a \in 1..MAX_RETRIES :
            cyc = [u \in Tasks |-> IF u = t THEN InAttempt(1, b, a) ELSE InitCycle]
    /\ accepted = {}
    /\ coll = InitColl
    /\ input \in Responses
    /\ sensor = NoSensor
    /\ patients = <<>>
    /\ life = InitLife
    /\ payload = NoPayload

(* The POST of the attempt is answered by input. *)
Deliver(t) ==
    /\ cyc[t].pc = "post"
    /\ Set(t, AfterPost(cyc[t], input))
    /\ accepted' = IF RemoteAccepts(input)
                   THEN accepted \cup Range(cyc[t].readings)
                   ELSE accepted
    /\ UNCHANGED <<vital_readings, sync_logs, coll, input,
                 sensor, patients, life, payload>>

(* The backoff sleep; the next attempt meets any response. *)
Retry(t) ==
    /\ cyc[t].pc = "backoff"
    /\ Set(t, AfterBackoff(cyc[t]))
    /\ input' \in Responses
    /\ UNCHANGED <<vital_readings, sync_logs, accepted, coll,
                 sensor, patients, life, payload>>

NextAttempt ==
    \/ \E t \in Tasks : Deliver(t)
    \/ \E t \in Tasks : Retry(t)

SpecAttempt == InitAttempt /\ [][NextAttempt]_vars

(* ---------------------------------------------------------------------- *)
(* The audit write of sync_now and the SyncResult, with the duration        *)
(* ---------------------------------------------------------------------- *)
(* int(time.time() * 1000): a wall clock, it need not be monotonic. *)
Clock == 0..MaxClock

(* The locals (records_sent, status, error_msg) a call can hold when it     *)
(* reaches the audit write at the end of sync_now: delivered and committed; *)
(* retries exhausted; an exception before anything was delivered; an        *)
(* exception of the update or the commit after the batch was delivered.     *)
LocalsAtAudit ==
    {<<n, "success", None>> : n \in 1..SYNC_BATCH_SIZE}
        \cup {<<0, "failed", e>> : e \in {ErrExhausted, ExcSelect, ExcLogEmpty, ExcPost}}
        \cup {<<n, "failed", e>> : n \in 1..SYNC_BATCH_SIZE, e \in {ExcUpdate, ExcCommit}}

(* A call of sync_now that found no record and is at its early audit       *)
(* write, or any call at the audit write at the end.                        *)
AtAudit ==
    {[InitCycle EXCEPT !.pc = "log_empty", !.n = 1]}
        \cup {[InitCycle EXCEPT !.pc = "log", !.n = 1, !.records_sent = l[1],
                                !.status = l[2], !.error_msg = l[3]] :
                l \in LocalsAtAudit}

(* input.code is start_ms of the call. *)
InitAudit ==
    /\ vital_readings = <<>>
    /\ sync_logs = <<>>
    /\ \E t \in Tasks : \E c \in AtAudit :
            cyc = [u \in Tasks |-> IF u = t THEN c ELSE InitCycle]
    /\ accepted = {}
    /\ coll = InitColl
    /\ \E start_ms \in Clock : input = [kind |-> "clock", code |-> start_ms]
    /\ sensor = NoSensor
    /\ patients = <<>>
    /\ life = InitLife
    /\ payload = NoPayload

(* SyncLog(records_sent, status, error_message, duration_ms) of _log_sync. *)
TimedEntry(inv, n, st, err, d) ==
    [inv |-> inv, records_sent |-> n, status |-> st, error_message |-> err,
     duration_ms |-> d]

(* Mutant: the result takes its duration after the audit write. *)
MutTimedResultOwnClock(n, st, err, d) ==
    [status |-> st, records_sent |-> n, duration_ms |-> d + 1, error |-> err]

(* SyncResult(status, records_sent, duration_ms, error). *)
TimedResult(n, st, err, d) ==
    [status |-> st, records_sent |-> n, duration_ms |-> d, error |-> err]

(* duration = int(time.time() * 1000) - start_ms; await _log_sync(session,  *)
(* 0, "success", None, duration); return SyncResult(status="success",       *)
(* records_sent=0, duration_ms=duration) (error is None by default). A      *)
(* failing write is caught by the handler of sync_now.                      *)
EarlyAuditWrite(t) ==
    /\ cyc[t].pc = "log_empty"
    /\ \E now \in Clock :
        LET duration == now - input.code IN
        \/ /\ sync_logs' = Append(sync_logs,
                                  TimedEntry(Inv(t), 0, "success", None, duration))
           /\ Set(t, Ended(cyc[t], "returned",
                           TimedResult(0, "success", None, duration)))
        \/ /\ Set(t, Except(cyc[t], ExcLogEmpty))
           /\ UNCHANGED sync_logs
    /\ UNCHANGED <<vital_readings, accepted, coll, input,
                   sensor, patients, life, payload>>

(* duration = int(time.time() * 1000) - start_ms; await _log_sync(session,  *)
(* records_sent, status, error_msg, duration); return SyncResult(status,    *)
(* records_sent, duration, error_msg). A failing write raises out of        *)
(* sync_now.                                                                *)
AuditWrite(t) ==
    /\ cyc[t].pc = "log"
    /\ \E now \in Clock :
        LET duration == now - input.code
            c == cyc[t]
        IN
        \/ /\ sync_logs' = Append(sync_logs,
                TimedEntry(Inv(t), c.records_sent, c.status, c.error_msg, duration))
           /\ Set(t, Ended(c, "returned",
                TimedResult(c.records_sent, c.status, c.error_msg, duration)))
        \/ /\ Set(t, Ended(c, "raised", NoResult))
           /\ UNCHANGED sync_logs
    /\ UNCHANGED <<vital_readings, accepted, coll, input,
                   sensor, patients, life, payload>>

NextAudit ==
    \/ \E t \in Tasks : EarlyAuditWrite(t)
    \/ \E t \in Tasks : AuditWrite(t)

SpecAudit == InitAudit /\ [][NextAudit]_vars

(* ---------------------------------------------------------------------- *)
(* sensor_manager: start_collection, _collection_loop, stop_collection      *)
(* ---------------------------------------------------------------------- *)
(* Positions of a loop task that has not exited. *)
Running ==
    {"ensure_patient", "ensure_commit", "ensure_refresh", "read", "persist", "sleep"}

(* No start_collection or stop_collection call is in progress. *)
CallEnded == {"none", "start_returned", "start_raised", "stop_returned", "stop_raised"}

SetColl(c) ==
    /\ coll' = c
    /\ UNCHANGED <<sync_logs, cyc, accepted, input, sensor, life, payload>>

(* start_collection is entered (lifespan startup, both globals None):       *)
(* reader = create_sensor_reader(), then await reader.initialize().         *)
StartCollection ==
    /\ coll.call \in CallEnded
    /\ coll.active_reader = None /\ coll.collection_task = None
    /\ SetColl([coll EXCEPT !.call = "start_init", !.available = FALSE])
    /\ UNCHANGED <<vital_readings, patients>>

(* Mutant: a failing initialize() is swallowed and collection starts. *)
MutAfterInitializeSwallows(c, ok) ==
    [c EXCEPT !.available = ok, !.active_reader = "reader",
              !.collection_task = "task", !.loop = "ensure_patient",
              !.must_cancel = FALSE, !.data = {}, !.logged = FALSE,
              !.prev_logged = FALSE, !.patient_id = None,
              !.call = "start_returned"]

(* After await reader.initialize(): _active_reader = reader and the task    *)
(* running _collection_loop is created, or the exception of initialize()    *)
(* leaves start_collection.                                                 *)
AfterInitialize(c, ok) ==
    IF ok
    THEN [c EXCEPT !.available = TRUE, !.active_reader = "reader",
                   !.collection_task = "task", !.loop = "ensure_patient",
                   !.must_cancel = FALSE, !.data = {}, !.logged = FALSE,
                   !.prev_logged = FALSE, !.patient_id = None,
                   !.call = "start_returned"]
    ELSE [c EXCEPT !.call = "start_raised"]

Initialize ==
    /\ coll.call = "start_init"
    /\ \E ok \in BOOLEAN : SetColl(AfterInitialize(coll, ok))
    /\ UNCHANGED <<vital_readings, patients>>

(* The loop task is not about to receive CancelledError. *)
Resumes(pos) == coll.loop = pos /\ ~coll.must_cancel

(* The Patient row _ensure_default_patient creates. *)
DefaultPatient == [medical_id |-> "MED-000001", last_name |-> "Patient"]

(* Mutant: the default patient is created whatever the select found. *)
MutPatientMissingAlways(ps) == TRUE

(* select(Patient).limit(1) ... scalar_one_or_none() is None. *)
PatientMissing(ps) == ps = <<>>

(* async with async_session(): patient_id = await _ensure_default_patient:  *)
(* the select finds a patient, whose id is returned, or none, and the       *)
(* default patient is added to the session. An exception here is outside    *)
(* the try of the loop and ends the task.                                   *)
EnsureDefaultPatient ==
    /\ Resumes("ensure_patient")
    /\ \/ IF PatientMissing(patients)
          THEN SetColl([coll EXCEPT !.loop = "ensure_commit"])
          ELSE \E id \in DOMAIN patients :
                SetColl([coll EXCEPT !.patient_id = id, !.loop = "read"])
       \/ SetColl([coll EXCEPT !.loop = "failed"])
    /\ UNCHANGED <<vital_readings, patients>>

(* await session.commit() of the new patient: the row is stored under the   *)
(* next id, or the commit raises and nothing is stored.                     *)
CommitDefaultPatient ==
    /\ Resumes("ensure_commit")
    /\ \/ /\ patients' = Append(patients, DefaultPatient)
          /\ SetColl([coll EXCEPT !.patient_id = Len(patients) + 1,
                                  !.loop = "ensure_refresh"])
       \/ /\ SetColl([coll EXCEPT !.loop = "failed"])
          /\ UNCHANGED patients
    /\ UNCHANGED vital_readings

(* await session.refresh(patient), then return patient.id. *)
RefreshDefaultPatient ==
    /\ Resumes("ensure_refresh")
    /\ \/ SetColl([coll EXCEPT !.loop = "read"])
       \/ SetColl([coll EXCEPT !.loop = "failed"])
    /\ UNCHANGED <<vital_readings, patients>>

(* Mutant: the loop has no except clause, the exception ends the task. *)
MutIterationErrorEndsLoop(c) == [c EXCEPT !.data = {}, !.logged = TRUE, !.loop = "failed"]

(* except Exception as exc: logger.error(...), then the sleep of the loop. *)
AfterIterationError(c) == [c EXCEPT !.data = {}, !.logged = TRUE, !.loop = "sleep"]

(* data = await reader.read(): a SensorData with its capture timestamp, or  *)
(* an exception (a reader that is not available raises).                    *)
Read ==
    /\ Resumes("read")
    /\ \/ /\ coll.available
          /\ \E ts \in Timestamps : SetColl([coll EXCEPT !.data = {ts}, !.loop = "persist"])
       \/ SetColl(AfterIterationError(coll))
    /\ UNCHANGED <<vital_readings, patients>>

(* await _persist_reading(data, patient_id): the row is added and           *)
(* committed, or the session raises and nothing is stored.                  *)
PersistReading ==
    /\ Resumes("persist")
    /\ \/ /\ Len(vital_readings) < MaxRecords
          /\ \E ts \in coll.data : vital_readings' = Append(vital_readings, NewReading(ts))
          /\ SetColl([coll EXCEPT !.data = {}, !.loop = "sleep"])
          /\ UNCHANGED patients
       \/ /\ SetColl(AfterIterationError(coll))
          /\ UNCHANGED <<vital_readings, patients>>

(* await asyncio.sleep(interval) ends, the next iteration begins. *)
Sleep ==
    /\ Resumes("sleep")
    /\ SetColl([coll EXCEPT !.prev_logged = coll.logged, !.logged = FALSE,
                            !.loop = "read"])
    /\ UNCHANGED <<vital_readings, patients>>

(* CancelledError is raised at the await the loop task is suspended in; it  *)
(* is no Exception, the except clause of the loop does not catch it.        *)
Cancelled ==
    /\ coll.must_cancel /\ coll.loop \in Running
    /\ SetColl([coll EXCEPT !.loop = "cancelled", !.must_cancel = FALSE, !.data = {}])
    /\ UNCHANGED <<vital_readings, patients>>

(* stop_collection is entered: _collection_task.cancel() if there is a      *)
(* task (a no-op on a task that is done), else on to the reader.            *)
StopCollection ==
    /\ coll.call \in CallEnded
    /\ SetColl([coll EXCEPT
            !.shutdowns = 0,
            !.must_cancel = coll.collection_task # None /\ coll.loop \in Running,
            !.call = IF coll.collection_task # None THEN "stop_await"
                     ELSE IF coll.active_reader # None THEN "stop_shutdown"
                     ELSE "stop_returned"])
    /\ UNCHANGED <<vital_readings, patients>>

(* Mutant: stop_collection does not await the task it cancelled. *)
MutStopAwaitNotWaiting ==
    /\ coll.call = "stop_await"
    /\ SetColl([coll EXCEPT !.collection_task = None,
                            !.call = IF coll.active_reader # None
                                     THEN "stop_shutdown" ELSE "stop_returned"])
    /\ UNCHANGED <<vital_readings, patients>>

(* await _collection_task returns once the task is done: CancelledError is  *)
(* passed over and _collection_task = None; the exception of a task that    *)
(* had failed is raised out of stop_collection.                             *)
StopAwait ==
    /\ coll.call = "stop_await"
    /\ coll.loop \notin Running
    /\ SetColl(IF coll.loop = "failed"
               THEN [coll EXCEPT !.call = "stop_raised"]
               ELSE [coll EXCEPT !.collection_task = None,
                                 !.call = IF coll.active_reader # None
                                          THEN "stop_shutdown" ELSE "stop_returned"])
    /\ UNCHANGED <<vital_readings, patients>>

(* await _active_reader.shutdown(); _active_reader = None: the reader is    *)
(* released, or shutdown() raises out of stop_collection.                   *)
Shutdown ==
    /\ coll.call = "stop_shutdown"
    /\ \/ SetColl([coll EXCEPT !.shutdowns = @ + 1, !.available = FALSE,
                                !.active_reader = None, !.call = "stop_returned"])
       \/ SetColl([coll EXCEPT !.shutdowns = @ + 1, !.call = "stop_raised"])
    /\ UNCHANGED <<vital_readings, patients>>

NextCollection ==
    \/ StartCollection
    \/ Initialize
    \/ EnsureDefaultPatient
    \/ CommitDefaultPatient
    \/ RefreshDefaultPatient
    \/ Read
    \/ PersistReading
    \/ Sleep
    \/ Cancelled
    \/ StopCollection
    \/ StopAwait
    \/ Shutdown

SpecCollection == Init /\ [][NextCollection]_vars

(* ---------------------------------------------------------------------- *)
(* sensor_manager called in any order: start_collection also while a       *)
(* reader or a loop task is held                                            *)
(* ---------------------------------------------------------------------- *)
(* start_collection is entered with _active_reader or _collection_task     *)
(* set (it looks at neither): a new reader is created and initialized.     *)
StartCollectionAgain ==
    /\ coll.call \in CallEnded
    /\ coll.active_reader # None \/ coll.collection_task # None
    /\ coll.unreleased + Len(coll.untracked) < MaxRestarts
    /\ SetColl([coll EXCEPT !.call = "restart_init"])
    /\ UNCHANGED <<vital_readings, patients>>

(* After await reader.initialize() of such a call: both globals are         *)
(* overwritten. A loop task that is running stays running with the reader   *)
(* it was given and nothing names it any more; a reader that was held is    *)
(* dropped without shutdown().                                              *)
AfterInitializeAgain(c, ok) ==
    IF ok
    THEN [c EXCEPT !.untracked = IF c.loop \in Running
                                 THEN Append(@, [pos |-> c.loop, data |-> c.data,
                                                 patient_id |-> c.patient_id])
                                 ELSE @,
                   !.unreleased = IF c.active_reader # None THEN @ + 1 ELSE @,
                   !.available = TRUE, !.active_reader = "reader",
                   !.collection_task = "task", !.loop = "ensure_patient",
                   !.must_cancel = FALSE, !.data = {}, !.logged = FALSE,
                   !.prev_logged = FALSE, !.patient_id = None,
                   !.call = "start_returned"]
    ELSE [c EXCEPT !.call = "start_raised"]

InitializeAgain ==
    /\ coll.call = "restart_init"
    /\ \E ok \in BOOLEAN : SetColl(AfterInitializeAgain(coll, ok))
    /\ UNCHANGED <<vital_readings, patients>>

(* One step of a loop task that is not named by _collection_task: the same  *)
(* _collection_loop, on the reader it was started with (still available,    *)
(* it was never shut down).                                                 *)
UntrackedLoopStep ==
    \E i \in DOMAIN coll.untracked :
        LET o == coll.untracked[i]
            To(x) == SetColl([coll EXCEPT !.untracked[i] = x])
            Ends == SetColl([coll EXCEPT !.untracked =
                        SubSeq(@, 1, i - 1) \o SubSeq(@, i + 1, Len(@))])
        IN  \/ /\ o.pos = "ensure_patient"
               /\ \/ IF PatientMissing(patients)
                     THEN To([o EXCEPT !.pos = "ensure_commit"])
                     ELSE \E id \in DOMAIN patients :
                            To([o EXCEPT !.patient_id = id, !.pos = "read"])
                  \/ Ends
               /\ UNCHANGED <<vital_readings, patients>>
            \/ /\ o.pos = "ensure_commit"
               /\ \/ /\ patients' = Append(patients, DefaultPatient)
                     /\ To([o EXCEPT !.patient_id = Len(patients) + 1,
                                     !.pos = "ensure_refresh"])
                  \/ Ends /\ UNCHANGED patients
               /\ UNCHANGED vital_readings
            \/ /\ o.pos = "ensure_refresh"
               /\ To([o EXCEPT !.pos = "read"]) \/ Ends
               /\ UNCHANGED <<vital_readings, patients>>
            \/ /\ o.pos = "read"
               /\ \/ \E ts \in Timestamps : To([o EXCEPT !.data = {ts}, !.pos = "persist"])
                  \/ To([o EXCEPT !.data = {}, !.pos = "sleep"])
               /\ UNCHANGED <<vital_readings, patients>>
            \/ /\ o.pos = "persist"
               /\ \/ /\ Len(vital_readings) < MaxRecords
                     /\ \E ts \in o.data :
                            vital_readings' = Append(vital_readings, NewReading(ts))
                     /\ To([o EXCEPT !.data = {}, !.pos = "sleep"])
                  \/ /\ To([o EXCEPT !.data = {}, !.pos = "sleep"])
                     /\ UNCHANGED vital_readings
               /\ UNCHANGED patients
            \/ /\ o.pos = "sleep"
               /\ To([o EXCEPT !.pos = "read"])
               /\ UNCHANGED <<vital_readings, patients>>

NextStartStop ==
    \/ NextCollection
    \/ StartCollectionAgain
    \/ InitializeAgain
    \/ UntrackedLoopStep

SpecStartStop == Init /\ [][NextStartStop]_vars

(* ---------------------------------------------------------------------- *)
(* main: lifespan, with the two background tasks it starts and stops        *)
(* ---------------------------------------------------------------------- *)
SetLife(l) ==
    /\ life' = l
    /\ UNCHANGED <<vital_readings, sync_logs, cyc, accepted, coll, input,
                   sensor, patients, payload>>

(* After await init_db(): the schema exists and startup goes on, or the     *)
(* exception of create_all leaves lifespan.                                 *)
AfterInitDb(l, ok) ==
    IF ok THEN [l EXCEPT !.schema = TRUE, !.pc = "start_collection"]
    ELSE [l EXCEPT !.pc = "aborted"]

InitDb ==
    /\ life.pc = "init_db"
    /\ \E ok \in BOOLEAN : SetLife(AfterInitDb(life, ok))

(* Mutant: lifespan creates the sync task whether or not start_collection   *)
(* raised.                                                                  *)
MutAfterStartCollectionIgnoresFailure(l, call) ==
    [l EXCEPT !.sync_task = "task", !.pc = "running"]

(* After await start_collection(): _sync_task = create_task(_periodic_sync) *)
(* and the yield, or the exception of start_collection leaves lifespan.     *)
AfterStartCollection(l, call) ==
    IF call = "start_returned"
    THEN [l EXCEPT !.sync_task = "task", !.pc = "running"]
    ELSE [l EXCEPT !.pc = "aborted"]

CreateSyncTask ==
    /\ life.pc = "start_collection"
    /\ coll.call \in {"start_returned", "start_raised"}
    /\ SetLife(AfterStartCollection(life, coll.call))

(* The periodic task exists and no cancellation of it is pending. *)
SyncTaskRuns == life.pc = "running" /\ life.sync_task # None

(* The event loop may resume the collection loop task: lifespan is not      *)
(* between the return of start_collection and its yield.                    *)
LoopScheduled == life.pc # "start_collection"

(* The server shuts down, lifespan resumes after its yield:                 *)
(* if _sync_task: _sync_task.cancel(), then await _sync_task.               *)
BeginShutdown ==
    /\ life.pc = "running"
    /\ SetLife([life EXCEPT !.pc = IF life.sync_task # None THEN "await_sync"
                                   ELSE "stop_collection"])

(* Mutant: lifespan does not await the task it cancelled. *)
MutSyncTaskDoneNoWait(c) == TRUE

(* The periodic task is done: await _sync_task raises CancelledError. *)
SyncTaskDone(c) == c.pc = "cancelled"

(* except asyncio.CancelledError: pass, then on to stop_collection. *)
SyncAwaited ==
    /\ life.pc = "await_sync"
    /\ SyncTaskDone(cyc["periodic"])
    /\ SetLife([life EXCEPT !.pc = "stop_collection"])

(* await stop_collection() returned, lifespan ends; or it raised. *)
EndShutdown ==
    /\ life.pc = "stop_collection"
    /\ coll.call \in {"stop_returned", "stop_raised"}
    /\ SetLife([life EXCEPT !.pc = IF coll.call = "stop_returned" THEN "stopped"
                                   ELSE "shutdown_raised"])

NextLifespan ==
    \/ InitDb
    \/ life.pc = "start_collection" /\ coll.call = "none" /\ StartCollection
    \/ Initialize
    \/ CreateSyncTask
    \/ LoopScheduled /\ EnsureDefaultPatient
    \/ LoopScheduled /\ CommitDefaultPatient
    \/ LoopScheduled /\ RefreshDefaultPatient
    \/ LoopScheduled /\ Read
    \/ LoopScheduled /\ PersistReading
    \/ LoopScheduled /\ Sleep
    \/ SyncTaskRuns /\ Start("periodic")
    \/ SyncTaskRuns /\ Select("periodic")
    \/ SyncTaskRuns /\ LogEmpty("periodic")
    \/ SyncTaskRuns /\ Post("periodic")
    \/ SyncTaskRuns /\ Backoff("periodic")
    \/ SyncTaskRuns /\ Update("periodic")
    \/ SyncTaskRuns /\ Commit("periodic")
    \/ SyncTaskRuns /\ Log("periodic")
    \/ BeginShutdown
    \/ life.pc = "await_sync" /\ Cancel
    \/ SyncAwaited
    \/ life.pc = "stop_collection" /\ coll.call = "start_returned" /\ StopCollection
    \/ Cancelled
    \/ StopAwait
    \/ Shutdown
    \/ EndShutdown

SpecLifespan == Init /\ [][NextLifespan]_vars

(* ---------------------------------------------------------------------- *)
(* The reader objects: MockSensor and PPGSensor                             *)
(* ---------------------------------------------------------------------- *)
(* Vital values are in hundredths of their unit (72.0 bpm is 7200).         *)
(* The vitals of MockSensor.read: baseline, noise and wave amplitude,       *)
(* period of the wave, anomaly offsets, clamp range.                        *)
MockVitals ==
    [heart_rate |-> [base |-> 7200, noise_amp |-> 300, wave_amp |-> 500,
                     period |-> 60, offsets |-> {-2000, 3000},
                     lo |-> 4000, hi |-> 18000],
     spo2 |-> [base |-> 9750, noise_amp |-> 30, wave_amp |-> 80,
               period |-> 90, offsets |-> {-500}, lo |-> 8500, hi |-> 10000],
     temperature |-> [base |-> 3660, noise_amp |-> 5, wave_amp |-> 20,
                      period |-> 120, offsets |-> {150}, lo |-> 3500, hi |-> 4200],
     blood_pressure_sys |-> [base |-> 12000, noise_amp |-> 200, wave_amp |-> 400,
                             period |-> 80, offsets |-> {2500},
                             lo |-> 8000, hi |-> 20000],
     blood_pressure_dia |-> [base |-> 7800, noise_amp |-> 150, wave_amp |-> 300,
                             period |-> 80, offsets |-> {1500},
                             lo |-> 5000, hi |-> 13000],
     respiratory_rate |-> [base |-> 1600, noise_amp |-> 100, wave_amp |-> 200,
                           period |-> 100, offsets |-> {800},
                           lo |-> 800, hi |-> 3500]]

VitalNames == DOMAIN MockVitals

(* random.gauss(0, 1) in hundredths of a standard deviation: the            *)
(* distribution is unbounded, far draws on both sides are included.         *)
GaussDraws == {-20000, 70, 20000}

(* _tick of a MockSensor that has been read some number of times. *)
TickStarts == {0, 14, 44}

(* math.sin(2 * pi * t / period) in thousandths, by Bhaskara's rational     *)
(* approximation on each half period.                                       *)
SinMilli(t, period) ==
    LET h == period \div 2
        u == t % period
        B(x) == (16000 * x * (h - x)) \div (5 * h * h - 4 * x * (h - x))
    IN  IF u <= h THEN B(u) ELSE 0 - B(u - h)

(* _generate_vital: base + wave_amp * sin(...) + gauss(0, noise_amp), plus  *)
(* the anomaly offset when the reading is an anomaly.                       *)
generate_vital(v, t, z, anomaly, offset) ==
    v.base + (v.wave_amp * SinMilli(t, v.period)) \div 1000
           + (v.noise_amp * z) \div 100
           + (IF anomaly THEN offset ELSE 0)

(* Mutant: the upper limit of the clamp is missing. *)
MutClampNoUpper(lo, hi, x) == Max(lo, x)

(* max(lo, min(hi, x)) *)
Clamp(lo, hi, x) == Max(lo, Min(hi, x))

(* round(x, 1): the nearest tenth; a float halfway between two tenths goes  *)
(* up or down, as its binary representation falls.                          *)
Round1(x, up) ==
    LET q == x \div 10
        r == x % 10
    IN  IF r < 5 THEN 10 * q
        ELSE IF r > 5 THEN 10 * (q + 1)
        ELSE IF up THEN 10 * (q + 1) ELSE 10 * q

(* The value read() returns for vital v. *)
ReadVital(v, t, z, anomaly, offset, up) ==
    Round1(Clamp(v.lo, v.hi, generate_vital(v, t, z, anomaly, offset)), up)

NoData == [kind |-> "none"]

(* A reader object after __init__. *)
NewSensor(variant, tick) ==
    [variant |-> variant, available |-> FALSE, bus |-> None, opens |-> 0,
     closes |-> 0, tick |-> tick, inits |-> 0, reads |-> 0,
     shutdowns |-> 0, call |-> "none", raised |-> FALSE, data |-> NoData]

InitSensor ==
    /\ vital_readings = <<>>
    /\ sync_logs = <<>>
    /\ cyc = [t \in Tasks |-> InitCycle]
    /\ accepted = {}
    /\ coll = InitColl
    /\ input = NoInput
    /\ sensor \in {NewSensor("mock", t) : t \in TickStarts} \cup {NewSensor("ppg", 0)}
    /\ patients = <<>>
    /\ life = InitLife
    /\ payload = NoPayload

SetSensor(x) ==
    /\ sensor' = x
    /\ UNCHANGED <<vital_readings, sync_logs, cyc, accepted, coll, input,
                   patients, life, payload>>

(* How PPGSensor.initialize may end: the probe answered; smbus2 is missing  *)
(* or SMBus() raised (no bus object is assigned); the bus is open and the   *)
(* probe read raised OSError.                                               *)
PpgInitOutcomes == {"ok", "no_bus", "probe_failed"}

(* initialize(): MockSensor sleeps and sets _available; PPGSensor opens the *)
(* bus and probes the part, raising RuntimeError when it cannot.            *)
SensorInitialize ==
    /\ sensor.inits < MaxInits
    /\ LET s == [sensor EXCEPT !.inits = @ + 1, !.call = "initialize"] IN
       IF sensor.variant = "mock"
       THEN SetSensor([s EXCEPT !.available = TRUE, !.raised = FALSE])
       ELSE \E o \in PpgInitOutcomes :
            SetSensor(
                IF o = "ok"
                THEN [s EXCEPT !.bus = "open", !.opens = @ + 1,
                               !.available = TRUE, !.raised = FALSE]
                ELSE IF o = "probe_failed"
                THEN [s EXCEPT !.bus = "open", !.opens = @ + 1, !.raised = TRUE]
                ELSE [s EXCEPT !.raised = TRUE])

(* MockSensor.read: one value per vital, each with its own gauss draw, the  *)
(* anomaly flag shared; random.choice([-20, 30]) is the heart-rate offset;  *)
(* up is the side the halfway values of this read fall to.                  *)
MockRead ==
    /\ sensor.variant = "mock"
    /\ sensor.reads < MaxReads
    /\ \E anomaly \in BOOLEAN : \E z \in [VitalNames -> GaussDraws] :
       \E choice \in MockVitals.heart_rate.offsets : \E up \in BOOLEAN :
        LET off(n) == IF n = "heart_rate" THEN choice
                      ELSE CHOOSE o \in MockVitals[n].offsets : TRUE
            d == [n \in VitalNames |->
                    ReadVital(MockVitals[n], sensor.tick + 1, z[n], anomaly, off(n), up)]
        IN  SetSensor([sensor EXCEPT !.tick = @ + 1, !.reads = @ + 1,
                                    !.call = "read", !.raised = FALSE,
                                    !.data = [kind |-> "vitals", v |-> d]])

(* PPGSensor.read: RuntimeError unless the sensor is available with a bus,  *)
(* else the stub's SensorData without values.                               *)
PpgRead ==
    /\ sensor.variant = "ppg"
    /\ sensor.reads < MaxReads
    /\ SetSensor(IF ~sensor.available \/ sensor.bus = None
                 THEN [sensor EXCEPT !.reads = @ + 1, !.call = "read", !.raised = TRUE]
                 ELSE [sensor EXCEPT !.reads = @ + 1, !.call = "read", !.raised = FALSE,
                                     !.data = [kind |-> "empty"]])

(* Mutant: PPGSensor.shutdown closes the bus without looking at _bus. *)
MutAfterShutdownAlwaysCloses(s) ==
    [s EXCEPT !.closes = @ + 1, !.bus = None, !.available = FALSE,
              !.shutdowns = @ + 1, !.call = "shutdown", !.raised = FALSE]

(* shutdown(): MockSensor clears _available; PPGSensor closes the bus if it *)
(* has one, forgets it and clears _available.                               *)
AfterShutdown(s) ==
    IF s.variant = "ppg" /\ s.bus # None
    THEN [s EXCEPT !.closes = @ + 1, !.bus = None, !.available = FALSE,
                   !.shutdowns = @ + 1, !.call = "shutdown", !.raised = FALSE]
    ELSE [s EXCEPT !.available = FALSE, !.shutdowns = @ + 1,
                   !.call = "shutdown", !.raised = FALSE]

SensorShutdown ==
    /\ sensor.variant \in {"mock", "ppg"}
    /\ sensor.shutdowns < MaxShutdowns
    /\ SetSensor(AfterShutdown(sensor))

NextSensor ==
    \/ SensorInitialize
    \/ MockRead
    \/ PpgRead
    \/ SensorShutdown

SpecSensor == InitSensor /\ [][NextSensor]_vars


(* ---------------------------------------------------------------------- *)
(* The batch payload of sync_now, over records with their content           *)
(* ---------------------------------------------------------------------- *)
\* rows of the store a payload is built from
MaxPayloadRows == 3

DEVICE_ID == "edge-node-001"

(* datetime.isoformat(): the text of a timestamp. *)
IsoFormat(ts) == <<"iso", ts>>

(* A nullable column holds {} for NULL and {v} for the value v.             *)
(* The vitals of a stored reading: those of the PPGSensor stub, all NULL,   *)
(* or the values of a MockSensor reading.                                   *)
VitalSamples ==
    {[n \in VitalNames |-> {}], [n \in VitalNames |-> {MockVitals[n].base}]}

(* ppg_raw: NULL, or the JSON text of the raw waveform. *)
Waveforms == {{}, {<<1, 2>>}}

(* A row of vital_readings with its content columns. *)
ContentRow(i, ts, v, w, s) ==
    [uuid |-> <<"uuid", i>>, timestamp |-> ts,
     heart_rate |-> v.heart_rate, spo2 |-> v.spo2,
     temperature |-> v.temperature,
     blood_pressure_sys |-> v.blood_pressure_sys,
     blood_pressure_dia |-> v.blood_pressure_dia,
     respiratory_rate |-> v.respiratory_rate,
     ppg_raw |-> w, synced |-> s,
     synced_at |-> IF s THEN {<<"manual", 0>>} ELSE {}]

RowShapes == Timestamps \X VitalSamples \X Waveforms \X BOOLEAN

InitPayload ==
    /\ \E n \in 0..MaxPayloadRows : \E f \in [1..n -> RowShapes] :
            vital_readings =
                [i \in 1..n |-> ContentRow(i, f[i][1], f[i][2], f[i][3], f[i][4])]
    /\ sync_logs = <<>>
    /\ cyc = [t \in Tasks |-> InitCycle]
    /\ accepted = {}
    /\ coll = InitColl
    /\ input = NoInput
    /\ sensor = NoSensor
    /\ patients = <<>>
    /\ life = InitLife
    /\ payload = NoPayload

(* One element of "readings": the dict built from record r (every row of    *)
(* the model has a timestamp, the else of the conditional is not taken).    *)
PayloadEntry(r) ==
    [uuid |-> r.uuid,
     timestamp |-> IsoFormat(r.timestamp),
     heart_rate |-> r.heart_rate, spo2 |-> r.spo2,
     temperature |-> r.temperature,
     blood_pressure_sys |-> r.blood_pressure_sys,
     blood_pressure_dia |-> r.blood_pressure_dia,
     respiratory_rate |-> r.respiratory_rate]

(* payload_data for the batch b of rows rs, built at time now. *)
PayloadData(rs, b, now) ==
    [device_id |-> DEVICE_ID,
     batch_timestamp |-> IsoFormat(now),
     readings |-> [k \in DOMAIN b |-> PayloadEntry(rs[b[k]])]]

(* The payload of the cycle is built from the batch it selected, before    *)
(* the first delivery attempt.                                              *)
BuildPayload(t) ==
    /\ cyc[t].pc = "post" /\ cyc[t].trace = <<>>
    /\ payload = NoPayload
    /\ \E now \in Timestamps :
            payload' = PayloadData(vital_readings, cyc[t].readings, now)
    /\ UNCHANGED <<vital_readings, sync_logs, cyc, accepted, coll, input,
                   sensor, patients, life>>

NextPayload ==
    \/ cyc["periodic"].n = 0 /\ Start("periodic")
    \/ Select("periodic")
    \/ BuildPayload("periodic")

SpecPayload == InitPayload /\ [][NextPayload]_vars

(* ---------------------------------------------------------------------- *)
(* The request of a sync cycle over its delivery attempts                   *)
(* ---------------------------------------------------------------------- *)
CENTRAL_API_KEY == "change-me"

(* json.dumps(payload_data, default=str): the text of the payload. *)
JsonDumps(d) == <<"json", d>>

(* hmac.new(secret, payload, sha256).hexdigest() *)
_sign_payload(payload_json, secret) == <<"hmac-sha256", secret, payload_json>>

(* The headers dict built before the retry loop. *)
Headers(signature) ==
    [ContentType |-> "application/json", XDeviceID |-> DEVICE_ID,
     XSignature |-> signature, Authorization |-> <<"Bearer", CENTRAL_API_KEY>>]

(* The locals payload_json and headers of the cycle. *)
Request(payload_data) ==
    LET payload_json == JsonDumps(payload_data)
    IN  [kind |-> "request", content |-> payload_json,
         headers |-> Headers(_sign_payload(payload_json, CENTRAL_API_KEY))]

(* One or two unsynced rows are stored before the cycle. *)
InitRequest ==
    /\ \E n \in 1..SYNC_BATCH_SIZE : \E f \in [1..n -> Timestamps \X VitalSamples] :
            vital_readings = [i \in 1..n |-> ContentRow(i, f[i][1], f[i][2], {}, FALSE)]
    /\ sync_logs = <<>>
    /\ cyc = [t \in Tasks |-> InitCycle]
    /\ accepted = {}
    /\ coll = InitColl
    /\ input = NoInput
    /\ sensor = NoSensor
    /\ patients = <<>>
    /\ life = InitLife
    /\ payload = NoPayload

(* payload_json, signature and headers are computed from payload_data      *)
(* before the retry loop.                                                   *)
BuildRequest(t) ==
    /\ cyc[t].pc = "post" /\ cyc[t].trace = <<>>
    /\ payload # NoPayload /\ input = NoInput
    /\ input' = Request(payload)
    /\ UNCHANGED <<vital_readings, sync_logs, cyc, accepted, coll,
                   sensor, patients, life, payload>>

(* client.post(url, content=payload_json, headers=headers): one delivery   *)
(* attempt.  History: the trace keeps the request that was sent.           *)
PostRequest(t) ==
    /\ cyc[t].pc = "post" /\ input # NoInput
    /\ \E resp \in Responses :
        /\ Set(t, [AfterPost(cyc[t], resp) EXCEPT
                      !.trace = Append(cyc[t].trace,
                                       <<"post", input.content, input.headers>>)])
        /\ accepted' = IF RemoteAccepts(resp)
                       THEN accepted \cup Range(cyc[t].readings)
                       ELSE accepted
    /\ UNCHANGED <<vital_readings, sync_logs, coll, input,
                   sensor, patients, life, payload>>

(* Mutant: the payload is built and signed inside the retry loop. *)
MutRetryRequestRebuilt(req, rs, b, now) == Request(PayloadData(rs, b, now))

(* payload_json and headers in the next iteration of the retry loop, with  *)
(* the rows rs of the store and the clock at now: the loop assigns neither. *)
RetryRequest(req, rs, b, now) == req

(* await asyncio.sleep(backoff), then the next iteration of the loop. *)
BackoffRequest(t) ==
    /\ cyc[t].pc = "backoff"
    /\ Set(t, AfterBackoff(cyc[t]))
    /\ \E now \in Timestamps :
            input' = RetryRequest(input, vital_readings, cyc[t].readings, now)
    /\ UNCHANGED <<vital_readings, sync_logs, accepted, coll,
                   sensor, patients, life, payload>>

(* The collection loop inserts a row while the cycle runs. *)
InsertContentRow ==
    /\ Len(vital_readings) < MaxPayloadRows
    /\ \E ts \in Timestamps : \E v \in VitalSamples :
            vital_readings' = Append(vital_readings,
                ContentRow(Len(vital_readings) + 1, ts, v, {}, FALSE))
    /\ UNCHANGED <<sync_logs, cyc, accepted, coll, input,
                   sensor, patients, life, payload>>

(* The commit of another call of sync_now marks unsynced rows while the    *)
(* cycle runs.                                                              *)
OtherCycleCommits ==
    /\ \E ids \in SUBSET Unsynced(vital_readings) :
        /\ ids # {}
        /\ vital_readings' = MarkSynced(vital_readings, ids, Now("manual"))
    /\ UNCHANGED <<sync_logs, cyc, accepted, coll, input,
                   sensor, patients, life, payload>>

NextRequest ==
    \/ cyc["periodic"].n = 0 /\ Start("periodic")
    \/ Select("periodic")
    \/ BuildPayload("periodic")
    \/ BuildRequest("periodic")
    \/ PostRequest("periodic")
    \/ BackoffRequest("periodic")
    \/ InsertContentRow
    \/ OtherCycleCommits

SpecRequest == InitRequest /\ [][NextRequest]_vars

(* ---------------------------------------------------------------------- *)
(* _periodic_sync without end, with a remote and a store that recover       *)
(* ---------------------------------------------------------------------- *)
(* input.kind is "faulty" while the remote may refuse and store operations  *)
(* may raise, "healthy" from the point on from which they do not;           *)
(* input.code counts the rows inserted in the current sync period.          *)
(* History is bounded: cyc[t].n stays 1 and sync_logs keeps the newest      *)
(* MaxAuditKept entries (no step of sync_now reads either).                 *)
InitLive ==
    /\ vital_readings = <<>>
    /\ sync_logs = <<>>
    /\ cyc = [t \in Tasks |-> InitCycle]
    /\ accepted = {}
    /\ coll = InitColl
    /\ input = [kind |-> "faulty", code |-> 0]
    /\ sensor = NoSensor
    /\ patients = <<>>
    /\ life = InitLife
    /\ payload = NoPayload

Healthy == input.kind = "healthy"

(* The step of task t is one in which nothing failed: no exception, no     *)
(* refusal of the remote.                                                   *)
NoFault(t) ==
    /\ cyc'[t].error_msg = cyc[t].error_msg
    /\ cyc'[t].pc \notin {"raised", "backoff"}

(* From here on the remote accepts every batch and no store operation      *)
(* fails.                                                                   *)
Recover ==
    /\ ~Healthy
    /\ input' = [input EXCEPT !.kind = "healthy"]
    /\ UNCHANGED <<vital_readings, sync_logs, cyc, accepted, coll,
                   sensor, patients, life, payload>>

(* The capture times a new reading can have: datetime.now() of a clock     *)
(* that does not step back.                                                 *)
LaterTimestamps(rs) ==
    {ts \in Timestamps : \A i \in DOMAIN rs : rs[i].timestamp <= ts}

(* _persist_reading of the collection loop, at most SYNC_BATCH_SIZE rows   *)
(* in one sync period.                                                      *)
LivePersist ==
    /\ Len(vital_readings) < MaxRecords
    /\ input.code < SYNC_BATCH_SIZE
    /\ \E ts \in LaterTimestamps(vital_readings) :
            vital_readings' = Append(vital_readings, NewReading(ts))
    /\ input' = [input EXCEPT !.code = @ + 1]
    /\ UNCHANGED <<sync_logs, cyc, accepted, coll,
                   sensor, patients, life, payload>>

(* Mutant: _periodic_sync has no except clause, an exception that escapes   *)
(* sync_now ends the task.                                                   *)
MutLiveStartNotAfterRaise(t) ==
    /\ cyc[t].pc \in {"idle", "returned"}
    /\ Set(t, [InitCycle EXCEPT !.pc = "select", !.n = 1])
    /\ input' = [input EXCEPT !.code = 0]
    /\ UNCHANGED <<vital_readings, sync_logs, accepted, coll,
                   sensor, patients, life, payload>>

(* while True: await asyncio.sleep(SYNC_INTERVAL_SECONDS); try: await      *)
(* sync_now() except Exception: log.  The sleep ends, a sync period begins  *)
(* and sync_now is entered, whether the call before returned or raised.     *)
LiveStart(t) ==
    /\ cyc[t].pc \in {"idle", "returned", "raised"}
    /\ Set(t, [InitCycle EXCEPT !.pc = "select", !.n = 1])
    /\ input' = [input EXCEPT !.code = 0]
    /\ UNCHANGED <<vital_readings, sync_logs, accepted, coll,
                   sensor, patients, life, payload>>

(* The audit entries after one more write. *)
Audited(log, e) ==
    IF Len(log) < MaxAuditKept THEN Append(log, e) ELSE Append(Tail(log), e)

(* The early audit write of the empty batch. *)
LiveLogEmpty(t) ==
    /\ cyc[t].pc = "log_empty"
    /\ \/ /\ sync_logs' = Audited(sync_logs, LogEntry(Inv(t), 0, "success", None))
          /\ Set(t, Ended(cyc[t], "returned",
                           [status |-> "success", records_sent |-> 0, error |-> None]))
       \/ /\ ~Healthy
          /\ Set(t, Except(cyc[t], ExcLogEmpty))
          /\ UNCHANGED sync_logs
    /\ UNCHANGED <<vital_readings, accepted, coll, input,
                   sensor, patients, life, payload>>

(* The audit write at the end of sync_now and the return of the SyncResult. *)
LiveLog(t) ==
    /\ cyc[t].pc = "log"
    /\ \/ /\ sync_logs' = Audited(sync_logs, FinalEntry(t))
          /\ Set(t, Ended(cyc[t], "returned",
                           [status |-> cyc[t].status,
                            records_sent |-> cyc[t].records_sent,
                            error |-> cyc[t].error_msg]))
       \/ /\ ~Healthy
          /\ Set(t, Ended(cyc[t], "raised", NoResult))
          /\ UNCHANGED sync_logs
    /\ UNCHANGED <<vital_readings, accepted, coll, input,
                   sensor, patients, life, payload>>

LiveSelect(t) == Select(t) /\ (Healthy => NoFault(t))

LivePost(t) == Post(t) /\ (Healthy => NoFault(t))

LiveUpdate(t) == Update(t) /\ (Healthy => NoFault(t))

LiveCommit(t) == Commit(t) /\ (Healthy => NoFault(t))

(* The steps of the task running _periodic_sync. *)
PeriodicSync ==
    \/ LiveStart("periodic")
    \/ LiveSelect("periodic")
    \/ LiveLogEmpty("periodic")
    \/ LivePost("periodic")
    \/ Backoff("periodic")
    \/ LiveUpdate("periodic")
    \/ LiveCommit("periodic")
    \/ LiveLog("periodic")

NextLive ==
    \/ PeriodicSync
    \/ LivePersist
    \/ Recover

(* The event loop resumes a task whose await has completed: the periodic   *)
(* task, never cancelled, takes its next step.                              *)
SpecLive == InitLive /\ [][NextLive]_vars /\ WF_vars(PeriodicSync)

(* ====================================================================== *)
(* Properties                                                               *)
(* ====================================================================== *)
Rows == DOMAIN vital_readings

(* The audit rows written by invocation inv. *)
EntriesOf(inv) == {i \in DOMAIN sync_logs : sync_logs[i].inv = inv}

(* The audit row of an invocation that wrote exactly one. *)
EntryOf(inv) == sync_logs[CHOOSE i \in EntriesOf(inv) : TRUE]

(* Invocation k of task t has ended by returning or raising. *)
HasEnded(t, k) ==
    \/ k < cyc[t].n
    \/ k = cyc[t].n /\ cyc[t].pc \in {"returned", "raised"}

NumPosts(tr) == Cardinality({j \in DOMAIN tr : tr[j] = <<"post">>})

(* k POSTs with a sleep of BACKOFF_BASE^i seconds between POST i and i+1. *)
ExpectedTrace(k) ==
    [j \in 1..(2 * k - 1) |->
        IF j % 2 = 1 THEN <<"post">> ELSE <<"sleep", Pow(BACKOFF_BASE, j \div 2)>>]

(* The select of call c succeeded and found no unsynced record. *)
FoundNone(c) ==
    /\ c.pc \in {"log_empty", "log", "returned", "raised"}
    /\ c.readings = <<>>
    /\ c.error_msg # ExcSelect

(* The retry loop of call c was left with every attempt failed: no attempt  *)
(* succeeded and none raised out of the loop.                               *)
LoopExhausted(c) ==
    /\ c.pc \in {"log", "returned", "raised"}
    /\ c.trace # <<>>
    /\ ~c.sent
    /\ c.error_msg # ExcPost

(* C1: every invocation of sync_now that has ended, by returning or by an   *)
(* exception raised anywhere in it, has appended exactly one audit entry.   *)
C1_OneAuditEntryPerInvocation ==
    \A t \in Tasks : \A k \in 1..cyc[t].n :
        HasEnded(t, k) => Cardinality(EntriesOf(<<t, k>>)) = 1

(* C2: a synced record was in a batch the remote answered 200/201/202 to;   *)
(* a record becomes synced only by the commit of a cycle whose delivery     *)
(* succeeded, and no step removes a record.                                 *)
C2_SyncedOnlyIfAccepted ==
    /\ [](\A i \in Rows : vital_readings[i].synced => i \in accepted)
    /\ [][/\ Len(vital_readings') >= Len(vital_readings)
          /\ \A i \in Rows :
                ~vital_readings[i].synced /\ vital_readings'[i].synced
                    => \E t \in Tasks :
                        /\ cyc[t].pc = "commit" /\ cyc'[t].pc = "log"
                        /\ cyc[t].sent /\ cyc'[t].status = "success"
                        /\ i \in Range(cyc[t].readings)]_vars

C2_Witness ==
    \E t \in Tasks : \E i, j \in Rows :
        /\ vital_readings[i].synced
        /\ ~vital_readings[j].synced
        /\ cyc[t].pc = "returned" /\ cyc[t].status = "failed"
        /\ j \in Range(cyc[t].readings)

(* C3: once a record is synced, every later step leaves it synced. *)
C3_SyncedMonotonic ==
    [][\A i \in Rows :
        vital_readings[i].synced
            => i \in DOMAIN vital_readings' /\ vital_readings'[i].synced]_vars

C3_Witness ==
    \E i \in Rows : \E t \in Tasks :
        /\ vital_readings[i].synced
        /\ cyc[t].pc = "returned" /\ cyc[t].status = "failed"
        /\ i \in Range(cyc[t].readings)

(* C4: in every state, synced_at is non-null exactly for the synced records. *)
C4_SyncedAtIffSynced ==
    \A i \in Rows : (vital_readings[i].synced_at # {}) <=> vital_readings[i].synced

C4_Witness ==
    \E i, j \in Rows :
        /\ vital_readings[i].synced /\ vital_readings[i].synced_at # {}
        /\ ~vital_readings[j].synced /\ vital_readings[j].synced_at = {}

(* What C5 asks of a batch b selected from the rows rs. *)
BatchOK(rs, b) ==
    /\ Len(b) <= SYNC_BATCH_SIZE
    /\ \A k \in DOMAIN b : b[k] \in DOMAIN rs /\ ~rs[b[k]].synced
    /\ \A k, l \in DOMAIN b : k < l => rs[b[k]].timestamp <= rs[b[l]].timestamp
    /\ \A j \in DOMAIN rs :
        ~rs[j].synced /\ j \notin Range(b)
            => \A k \in DOMAIN b : rs[b[k]].timestamp <= rs[j].timestamp

(* C5: the batch a cycle selects holds only unsynced records, at most       *)
(* SYNC_BATCH_SIZE of them, in ascending timestamp order, and no unsynced   *)
(* record left out is older than a selected one.                            *)
C5_BatchSelection ==
    [][\A t \in Tasks :
        cyc[t].pc = "select" /\ cyc'[t].pc \in {"log_empty", "post"}
            => BatchOK(vital_readings, cyc'[t].readings)]_vars

C5_Witness ==
    \E t \in Tasks : \E j \in Rows :
        LET b == cyc[t].readings IN
        /\ cyc[t].pc = "post" /\ cyc[t].trace = <<>>
        /\ Len(b) = SYNC_BATCH_SIZE
        /\ b[1] > b[2]
        /\ vital_readings[b[1]].timestamp < vital_readings[b[2]].timestamp
        /\ ~vital_readings[j].synced /\ j \notin Range(b)

SuccessResult(n) == [status |-> "success", records_sent |-> n, error |-> None]
FailedResult(n, err) == [status |-> "failed", records_sent |-> n, error |-> err]

(* Invocation t wrote exactly one audit row, and it reads (n, st, err). *)
OneEntry(t, n, st, err) ==
    /\ Cardinality(EntriesOf(Inv(t))) = 1
    /\ EntryOf(Inv(t)) = LogEntry(Inv(t), n, st, err)

(* A step of task t's call leaves every record as it was. *)
StepKeepsRecords(t) == cyc'[t] # cyc[t] => vital_readings' = vital_readings

CommitMarksExactlyBatch(t) ==
    cyc[t].pc = "commit" /\ cyc'[t].pc = "log" /\ cyc'[t].status = "success"
        => /\ DOMAIN vital_readings' = Rows
           /\ \A i \in Rows :
                IF i \in Range(cyc[t].readings)
                THEN vital_readings'[i].synced
                ELSE vital_readings'[i] = vital_readings[i]

C8_ExhaustedLeavesBatchUnsynced ==
    [][\A t \in Tasks :
        cyc[t].pc = "log" /\ LoopExhausted(cyc[t]) /\ cyc'[t].pc = "returned"
            => /\ cyc'[t].result = FailedResult(0, ErrExhausted)
               /\ Cardinality({i \in DOMAIN sync_logs' : sync_logs'[i].inv = Inv(t)}) = 1
               /\ sync_logs'[Len(sync_logs')] = LogEntry(Inv(t), 0, "failed", ErrExhausted)
               /\ \A i \in Range(cyc[t].readings) : ~vital_readings'[i].synced]_vars

(* C9: once delivery has succeeded on attempt k, the cycle has made k POSTs *)
(* and k-1 sleeps of 2, 4, ... seconds, one between consecutive POSTs, and  *)
(* this stays so for the rest of the call.                                  *)
C9_BackoffBeforeSuccess ==
    \A t \in Tasks :
        cyc[t].sent
            => /\ cyc[t].attempt \in 1..MAX_RETRIES
               /\ cyc[t].trace = ExpectedTrace(cyc[t].attempt)
               /\ NumPosts(cyc[t].trace) = cyc[t].attempt
               /\ cyc[t].attempt = 3
                    => cyc[t].trace =
                        <<(<<"post">>), <<"sleep", 2>>, <<"post">>, <<"sleep", 4>>, <<"post">>>>

C9_Witness ==
    \E t \in Tasks :
        /\ cyc[t].sent /\ cyc[t].attempt = MAX_RETRIES
        /\ cyc[t].pc = "returned"

(* C10: a cycle never makes more than MAX_RETRIES POSTs, and one whose      *)
(* attempts all failed has made POST, sleep 2, POST, sleep 4, POST and      *)
(* nothing after the last POST.                                             *)
C10_BoundedAttempts ==
    \A t \in Tasks :
        /\ NumPosts(cyc[t].trace) <= MAX_RETRIES
        /\ LoopExhausted(cyc[t])
            => cyc[t].trace =
                <<(<<"post">>), <<"sleep", 2>>, <<"post">>, <<"sleep", 4>>, <<"post">>>>

C10_Witness ==
    \E t \in Tasks : cyc[t].pc = "returned" /\ LoopExhausted(cyc[t])

(* After one POST, before the step that follows it. *)
JustPosted(c) == c.pc \in {"update", "backoff", "log"}

(* C11: an attempt is successful iff the status is 200, 201 or 202; after   *)
(* any other status (204 included) and after a network-level error the      *)
(* attempt has failed, and while attempts remain the cycle sleeps the       *)
(* backoff and posts again, else the loop ends exhausted.                   *)
C11_SuccessIffAcceptedStatus ==
    /\ [](\A t \in Tasks :
            LET c == cyc[t]
                ok == input.kind = "status" /\ input.code \in {200, 201, 202}
                failed == input.kind = "HTTPError"
                            \/ (input.kind = "status" /\ input.code \notin {200, 201, 202})
            IN  JustPosted(c) =>
                /\ (c.sent /\ c.pc = "update" /\ c.records_sent = Len(c.readings)) <=> ok
                /\ failed =>
                    /\ ~c.sent /\ c.records_sent = 0
                    /\ c.attempt < MAX_RETRIES => c.pc = "backoff" /\ c.status = "success"
                    /\ c.attempt = MAX_RETRIES
                        => c.pc = "log" /\ c.status = "failed" /\ c.error_msg = ErrExhausted)
    /\ [][\A t \in Tasks :
            cyc[t].pc = "backoff" /\ cyc'[t] # cyc[t]
                => /\ cyc'[t].pc = "post"
                   /\ cyc'[t].attempt = cyc[t].attempt + 1
                   /\ cyc'[t].trace =
                        Append(cyc[t].trace, <<"sleep", Pow(BACKOFF_BASE, cyc[t].attempt)>>)]_vars

C11_Witness ==
    \E t \in Tasks :
        /\ input.kind = "status" /\ input.code = 204
        /\ cyc[t].pc = "backoff" /\ cyc[t].attempt = 2
        /\ NumPosts(cyc[t].trace) = 2

(* The details of the exceptions caught by the handler of sync_now. *)
Exceptions == {ExcSelect, ExcLogEmpty, ExcPost, ExcUpdate, ExcCommit}

(* C12: an exception in a cycle of the periodic task is caught in sync_now  *)
(* and sends the cycle to its audit write; a cycle that returns after it    *)
(* has appended a failed entry with the detail of the exception; after a    *)
(* cycle that returned, and after one whose exception escaped sync_now, the *)
(* periodic task is asleep and its next cycle can start.                    *)
C12_ExceptionNeverEndsPeriodicTask ==
    [][LET p == "periodic" IN
          /\ cyc[p].pc \in {"returned", "raised"} /\ Started < MaxInvocations
                => ENABLED Start(p)
          /\ cyc'[p].error_msg \in Exceptions /\ cyc[p].error_msg \notin Exceptions
                => cyc'[p].pc = "log" /\ cyc'[p].status = "failed"
          /\ cyc[p].pc = "log" /\ cyc[p].error_msg \in Exceptions /\ cyc'[p].pc = "returned"
                => /\ sync_logs' = Append(sync_logs,
                                          LogEntry(Inv(p), cyc[p].records_sent, "failed",
                                                   cyc[p].error_msg))
                   /\ cyc'[p].result.status = "failed"
                   /\ cyc'[p].result.error = cyc[p].error_msg
          /\ cyc[p].pc = "log" /\ cyc'[p].pc # "log"
                => cyc'[p].pc \in {"returned", "raised", "cancelled"}]_vars

(* The first periodic cycle raised out of sync_now (it left no audit        *)
(* entry); the second met an exception and returned with a failed entry.    *)
C12_Witness ==
    LET p == "periodic" IN
    /\ cyc[p].n = 2 /\ cyc[p].pc = "returned"
    /\ EntriesOf(<<p, 1>>) = {}
    /\ EntriesOf(<<p, 2>>) # {}
    /\ EntryOf(<<p, 2>>).status = "failed"
    /\ EntryOf(<<p, 2>>).error_message \in Exceptions

(* The rows whose synced_at was written by the update of invocation inv. *)
MarkedBy(inv) == {i \in Rows : vital_readings[i].synced_at = {inv}}

(* The record count of a cycle ended by an exception: the batch size if the *)
(* remote had accepted the batch, else 0.                                   *)
DeliveredBeforeFailure(c) == IF c.sent THEN Len(c.readings) ELSE 0

Iterating(c) == c.loop \in {"read", "persist", "sleep"}

(* C14: an iteration whose read or persist raised stores no record and goes *)
(* to the sleep of the loop; after the sleep the loop reads again; a        *)
(* persist that succeeded has added one record with the timestamp read and  *)
(* synced = false, and records are added by nothing else; an iterating loop *)
(* is left only by the cancellation requested by stop_collection.           *)
C14_LoopSurvivesFailure ==
    [][/\ coll'.logged /\ ~coll.logged
            => /\ coll.loop \in {"read", "persist"} /\ coll'.loop = "sleep"
               /\ vital_readings' = vital_readings
       /\ coll.loop = "sleep" /\ coll'.loop # "sleep"
            => \/ coll'.loop = "read" /\ vital_readings' = vital_readings
               \/ coll'.loop = "cancelled" /\ coll.must_cancel
       /\ coll.loop = "persist" /\ coll'.loop = "sleep" /\ ~coll'.logged
            => \E ts \in coll.data :
                vital_readings' = Append(vital_readings,
                    [timestamp |-> ts, synced |-> FALSE, synced_at |-> {}])
       /\ vital_readings' # vital_readings
            => coll.loop = "persist" /\ coll'.loop = "sleep" /\ ~coll'.logged
       /\ Iterating(coll) /\ ~Iterating(coll')
            => coll'.loop = "cancelled" /\ coll.must_cancel]_vars

(* The iteration before failed and stored nothing; this one has persisted   *)
(* the first record.                                                        *)
C14_Witness ==
    /\ coll.loop = "sleep" /\ coll.prev_logged /\ ~coll.logged
    /\ Len(vital_readings) = 1
    /\ ~vital_readings[1].synced

(* get_sensor_reader() *)
get_sensor_reader == coll.active_reader

(* C15: start_collection ends its one await of initialize() either started *)
(* (reader available, handle set, task created) or, when initialize()      *)
(* raised, by raising with nothing else changed; until initialize() has    *)
(* succeeded, and after it raised, there is no task and no running loop,   *)
(* get_sensor_reader() is None, and no step reads the sensor or changes    *)
(* the records.                                                            *)
C15_InitializeFailurePropagates ==
    /\ [](coll.call \in {"start_init", "start_raised"}
            => /\ get_sensor_reader = None
               /\ coll.collection_task = None
               /\ coll.loop \notin Running
               /\ coll.data = {})
    /\ [][/\ coll.call = "start_init" /\ coll'.call # "start_init"
                => \/ /\ coll'.call = "start_returned"
                      /\ coll'.available /\ coll'.active_reader # None
                      /\ coll'.collection_task # None /\ coll'.loop = "ensure_patient"
                   \/ coll' = [coll EXCEPT !.call = "start_raised"]
          /\ coll.call \in {"start_init", "start_raised"}
                => /\ vital_readings' = vital_readings
                   /\ coll'.data = {}
                   /\ coll'.loop \in Running => coll'.call = "start_returned"]_vars

(* The first start_collection raised: another call may follow, nothing runs. *)
C15_Witness ==
    /\ coll.call = "start_raised"
    /\ ~coll.available
    /\ coll.loop = "none"
    /\ vital_readings = <<>>

(* C16: stop_collection calls shutdown() only when the loop task it         *)
(* cancelled has exited, so never while the task is in a read or a persist; *)
(* a stop_collection that cancelled a loop goes from the exit of the task   *)
(* to shutdown() and calls it once; during shutdown() and after             *)
(* stop_collection has returned no loop runs and no record is inserted.     *)
C16_ShutdownAfterLoopExit ==
    /\ [](/\ coll.shutdowns <= 1
          /\ coll.call \in {"stop_shutdown", "stop_returned"}
                => coll.loop \notin Running /\ coll.collection_task = None
          /\ coll.call = "stop_returned" => coll.active_reader = None)
    /\ [][/\ coll'.shutdowns = coll.shutdowns + 1
                => coll.call = "stop_shutdown" /\ coll.loop \notin Running
          /\ coll.call = "stop_await" /\ coll'.call # "stop_await"
                => /\ coll.loop \notin Running
                   /\ coll.loop = "cancelled" => coll'.call = "stop_shutdown"
          /\ coll.call = "stop_await" /\ coll.loop \in Running
                => coll.must_cancel
          /\ coll.call = "stop_shutdown" /\ coll'.call = "stop_returned"
                => coll'.shutdowns = 1 /\ ~coll'.available
          /\ coll.call \in {"stop_shutdown", "stop_returned"}
                => vital_readings' = vital_readings]_vars

(* stop_collection has returned after cancelling a loop that had stored a   *)
(* record; shutdown() was called once.                                      *)
C16_Witness ==
    /\ coll.call = "stop_returned" /\ coll.shutdowns = 1
    /\ coll.loop = "cancelled" /\ ~coll.available
    /\ Len(vital_readings) >= 1

(* Positions of a call of sync_now between its entry and its end. *)
InCycle == {"select", "log_empty", "post", "backoff", "update", "commit", "log"}

(* C17: the periodic task enters sync_now only from its sleep, that is      *)
(* before its first cycle or after the call before has returned or raised;  *)
(* it leaves a cycle for the sleep only by the end of sync_now (the audit   *)
(* write done or raised), after every retry and backoff of the cycle; the   *)
(* audit entries of periodic cycles are written by the cycle in progress.   *)
C17_PeriodicCyclesSequential ==
    [][LET p == "periodic" IN
       /\ cyc'[p].n # cyc[p].n
            => /\ cyc[p].pc \in {"idle", "returned", "raised"}
               /\ cyc'[p].n = cyc[p].n + 1 /\ cyc'[p].pc = "select"
               /\ \A k \in 1..cyc[p].n : HasEnded(p, k)
       /\ cyc[p].pc \in InCycle /\ cyc'[p].pc \in {"returned", "raised"}
            => cyc[p].pc \in {"log_empty", "log"} /\ cyc'[p].n = cyc[p].n
       /\ cyc[p].pc \in InCycle /\ cyc'[p].pc \notin InCycle
            => cyc'[p].pc \in {"returned", "raised", "cancelled"}
       /\ \A i \in DOMAIN sync_logs' :
            i \notin DOMAIN sync_logs /\ sync_logs'[i].inv[1] = p
                => sync_logs'[i].inv = Inv(p) /\ cyc[p].pc \in InCycle]_vars

(* The second periodic cycle is retrying after a backoff; the first has     *)
(* written its audit entry.                                                 *)
C17_Witness ==
    LET p == "periodic" IN
    /\ cyc[p].n = 2 /\ cyc[p].pc = "post" /\ cyc[p].attempt = 2
    /\ EntriesOf(<<p, 1>>) # {}
    /\ EntriesOf(<<p, 2>>) = {}

(* Tasks whose call of sync_now has selected its batch and has not ended. *)
Cycling == {t \in Tasks : cyc[t].pc \in InCycle \ {"select"}}

(* C18: at most one call of sync_now is between its selection and its      *)
(* audit write.                                                             *)
C18_AtMostOneCycle == Cardinality(Cycling) <= 1

(* C19: a record is marked by the update of at most one cycle: a synced_at  *)
(* that is set is never written again.                                      *)
C19_SyncedAtSetOnce ==
    [][\A i \in Rows :
        vital_readings[i].synced_at # {}
            => vital_readings'[i].synced_at = vital_readings[i].synced_at]_vars

(* Positions of a call between its selection and its mark-synced commit. *)
SelectedNotCommitted == {"post", "backoff", "update", "commit"}

(* C20: an insert while a cycle is between its selection and its commit     *)
(* adds an unsynced record, leaves the cycle and its batch as they are and  *)
(* every other record as it is; the commit of the cycle changes no record   *)
(* outside its batch; no step removes a record; a later selection takes     *)
(* every unsynced record the batch size has room for.                       *)
C20_InsertDuringCycleKept ==
    /\ [](\A t \in Tasks : Range(cyc[t].readings) \subseteq Rows)
    /\ [][\A t \in Tasks :
            /\ Len(vital_readings') >= Len(vital_readings)
            /\ cyc[t].pc \in SelectedNotCommitted /\ Len(vital_readings') > Len(vital_readings)
                => LET i == Len(vital_readings') IN
                   /\ i = Len(vital_readings) + 1
                   /\ cyc'[t] = cyc[t]
                   /\ i \notin Range(cyc'[t].readings)
                   /\ ~vital_readings'[i].synced
                   /\ i \in Unsynced(vital_readings')
                   /\ \A j \in Rows : vital_readings'[j] = vital_readings[j]
            /\ cyc[t].pc \in SelectedNotCommitted /\ cyc'[t] # cyc[t]
                => \A j \in Rows \ Range(cyc[t].readings) :
                        vital_readings'[j] = vital_readings[j]
            /\ cyc[t].pc = "select" /\ cyc'[t].pc \in {"post", "log_empty"}
                => \A j \in Unsynced(vital_readings) :
                        \/ j \in Range(cyc'[t].readings)
                        \/ Len(cyc'[t].readings) = SYNC_BATCH_SIZE]_vars

(* The cycle selected one record where the batch had room for two and has   *)
(* committed it; the record inserted meanwhile is in the store, unsynced.   *)
C20_Witness ==
    \E t \in Tasks :
        /\ cyc[t].pc = "log" /\ cyc[t].status = "success"
        /\ cyc[t].readings = <<1>>
        /\ vital_readings[1].synced_at = {Inv(t)}
        /\ Len(vital_readings) = 2
        /\ ~vital_readings[2].synced

(* The step ends the call of task t between the acceptance of its batch    *)
(* and the commit of the mark-synced update: the task is cancelled, or the  *)
(* update or the commit raises.                                             *)
InterruptedAfterAccept(t) ==
    /\ cyc[t].sent /\ cyc[t].pc \in {"update", "commit"}
    /\ \/ cyc'[t].pc = "cancelled"
       \/ cyc'[t].error_msg \in {ExcUpdate, ExcCommit}

ClampRange ==
    [heart_rate |-> [lo |-> 4000, hi |-> 18000],
     spo2 |-> [lo |-> 8500, hi |-> 10000],
     temperature |-> [lo |-> 3500, hi |-> 4200],
     blood_pressure_sys |-> [lo |-> 8000, hi |-> 20000],
     blood_pressure_dia |-> [lo |-> 5000, hi |-> 13000],
     respiratory_rate |-> [lo |-> 800, hi |-> 3500]]

(* C22: every value MockSensor.read has returned lies in its clamp range.   *)
C22_MockValuesInRange ==
    sensor.variant = "mock" /\ sensor.data.kind = "vitals"
        => \A n \in DOMAIN ClampRange :
            /\ sensor.data.v[n] >= ClampRange[n].lo
            /\ sensor.data.v[n] <= ClampRange[n].hi

(* A read whose heart rate ran into the upper limit and whose temperature   *)
(* ran into the lower one.                                                  *)
C22_Witness ==
    /\ sensor.variant = "mock" /\ sensor.data.kind = "vitals"
    /\ sensor.data.v.heart_rate = 18000
    /\ sensor.data.v.temperature = 3500
    /\ sensor.data.v.spo2 > 8500 /\ sensor.data.v.spo2 < 10000

(* What a caller can observe of a reader object after a call. *)
SensorObservable(s) ==
    [is_available |-> s.available, bus |-> s.bus, closes |-> s.closes,
     raised |-> s.raised]

(* C29: shutdown() is idempotent for MockSensor and PPGSensor. A call of    *)
(* shutdown(), the first or a repeated one, before or after initialize()    *)
(* and also after a failed initialize(), raises nothing, leaves             *)
(* is_available false and closes a bus only if one is open, so that a       *)
(* second call changes nothing a caller can observe and no bus is closed    *)
(* more often than it was opened. is_available becomes true by a successful *)
(* initialize() and by nothing else, and stays true until the next          *)
(* shutdown(): neither a read() nor a failed initialize() changes it.       *)
C29_ShutdownIdempotent ==
    /\ [](sensor.variant \in {"mock", "ppg"} =>
            /\ sensor.closes <= sensor.opens
            /\ sensor.inits = 0 => ~sensor.available)
    /\ [][sensor' # sensor =>
            /\ sensor'.shutdowns = sensor.shutdowns + 1 =>
                /\ ~sensor'.raised
                /\ ~sensor'.available
                /\ sensor'.bus = None
                /\ sensor'.closes = sensor.closes + (IF sensor.bus = None THEN 0 ELSE 1)
                /\ SensorObservable(AfterShutdown(sensor')) = SensorObservable(sensor')
            /\ sensor'.inits = sensor.inits + 1 =>
                sensor'.available = (sensor.available \/ ~sensor'.raised)
            /\ sensor'.reads = sensor.reads + 1 =>
                sensor'.available = sensor.available]_vars

(* A PPGSensor whose probe succeeded has been shut down three times: the    *)
(* bus was closed once.                                                     *)
C29_Witness ==
    /\ sensor.variant = "ppg"
    /\ sensor.call = "shutdown"
    /\ sensor.shutdowns = 3
    /\ sensor.inits = 1
    /\ sensor.opens = 1
    /\ sensor.closes = 1
    /\ ~sensor.available

(* C27: a loop task that reads the sensor, persists or sleeps holds the id  *)
(* of an existing patient; the patient table changes only by the commit of  *)
(* _ensure_default_patient, which adds the default patient to an empty      *)
(* table, so the table never holds more than one patient over any sequence  *)
(* of start_collection and stop_collection calls; a record is inserted only *)
(* under a patient id that exists in the table.                             *)
C27_OneDefaultPatient ==
    /\ [](/\ Len(patients) <= 1
          /\ Iterating(coll) => coll.patient_id \in DOMAIN patients)
    /\ [][/\ patients' # patients
                => /\ patients = <<>> /\ patients' = <<DefaultPatient>>
                   /\ coll.loop = "ensure_commit" /\ coll'.loop = "ensure_refresh"
                   /\ coll'.patient_id = 1
          /\ coll.loop = "ensure_patient" /\ coll'.loop = "read"
                => patients # <<>> /\ coll'.patient_id \in DOMAIN patients
          /\ vital_readings' # vital_readings
                => coll.patient_id \in DOMAIN patients']_vars

(* Collection was stopped, sensor shutdown included, and started again: the *)
(* new loop found the patient of the first one and is about to persist a    *)
(* reading under its id.                                                    *)
C27_Witness ==
    /\ coll.call = "start_returned" /\ coll.shutdowns = 1
    /\ coll.loop = "persist"
    /\ Len(patients) = 1 /\ coll.patient_id = 1
    /\ Len(vital_readings) >= 1

(* Neither background task exists: no sync_now call was entered, no loop    *)
(* task was created.                                                        *)
NoPeriodicTask == life.sync_task = None /\ cyc["periodic"] = InitCycle
NoCollectionLoop == coll.collection_task = None /\ coll.loop = "none"

(* C23: lifespan starts in the order init_db, start_collection, creation of *)
(* the periodic sync task: start_collection is entered only with the schema *)
(* created, the sync task exists only after start_collection returned. A    *)
(* failing init_db and a start_collection that raised (its initialize()     *)
(* failed) each end lifespan at once: after it there is no periodic sync    *)
(* task, no collection loop when the sensor failed to initialize, and       *)
(* collection was not even entered when the schema failed; nothing runs     *)
(* after the abort.                                                         *)
C23_StartupOrder ==
    /\ [](/\ coll.call # "none" => life.schema
          /\ life.sync_task # None
                => life.schema /\ coll.call \notin {"none", "start_init", "start_raised"}
          /\ cyc["periodic"] # InitCycle => life.sync_task # None
          /\ life.pc = "aborted"
                => /\ NoPeriodicTask
                   /\ NoCollectionLoop
                   /\ ~life.schema => coll = InitColl
                   /\ life.schema => coll.call = "start_raised"
                   /\ vital_readings = <<>> /\ sync_logs = <<>>)
    /\ [][/\ life.pc = "init_db" /\ life' # life
                => \/ life'.schema /\ life'.pc = "start_collection"
                   \/ ~life'.schema /\ life'.pc = "aborted"
          /\ life.pc = "start_collection" /\ coll.call = "start_raised"
                => life'.pc = "aborted" /\ coll' = coll
          /\ life.pc = "start_collection" /\ life'.pc = "running"
                => coll.call = "start_returned" /\ life'.sync_task # None
          /\ life.pc = "aborted" => UNCHANGED vars]_vars

(* The schema was created, the sensor failed to initialize, startup was     *)
(* aborted.                                                                 *)
C23_Witness ==
    /\ life.pc = "aborted" /\ life.schema
    /\ coll.call = "start_raised"
    /\ life.sync_task = None

(* lifespan is past its yield. *)
ShuttingDown == life.pc \in {"await_sync", "stop_collection", "stopped", "shutdown_raised"}

(* C24: stop_collection is entered only when the cancelled periodic sync    *)
(* task is done; from the cancel() on the periodic task enters no sync_now  *)
(* call and takes no step but the end by CancelledError; when lifespan has  *)
(* ended with stop_collection returned, the periodic task is done, the      *)
(* collection loop task is done and forgotten, the reader has been shut     *)
(* down once and released, and no step changes anything any more.           *)
C24_ShutdownOrder ==
    /\ [](/\ life.pc \in {"stop_collection", "stopped", "shutdown_raised"}
                => cyc["periodic"].pc = "cancelled"
          /\ coll.call \in {"stop_await", "stop_shutdown", "stop_returned", "stop_raised"}
                => cyc["periodic"].pc = "cancelled"
          /\ life.pc = "stopped"
                => /\ coll.loop \notin Running /\ coll.collection_task = None
                   /\ get_sensor_reader = None
                   /\ coll.shutdowns = 1 /\ ~coll.available)
    /\ [][/\ ShuttingDown /\ cyc' # cyc
                => /\ life.pc = "await_sync"
                   /\ cyc' = [cyc EXCEPT !["periodic"] =
                                [InitCycle EXCEPT !.pc = "cancelled",
                                                  !.n = cyc["periodic"].n]]
          /\ ShuttingDown => sync_logs' = sync_logs /\ accepted' = accepted
          /\ life.pc = "stopped" => UNCHANGED vars]_vars

(* Shutdown completed after the periodic task had run a cycle and the loop  *)
(* had stored a record.                                                     *)
C24_Witness ==
    /\ life.pc = "stopped"
    /\ cyc["periodic"].n >= 1
    /\ Len(sync_logs) >= 1
    /\ Len(vital_readings) >= 1

(* The call of task t has ended with every attempt failed, task u selects   *)
(* in this step, and these are the only two calls so far.                   *)
SelectsAfterExhausted(t, u) ==
    /\ t # u
    /\ cyc[t].n = 1 /\ cyc[u].n = 1
    /\ cyc[t].pc \in {"returned", "raised"} /\ LoopExhausted(cyc[t])
    /\ cyc[u].pc = "select" /\ cyc'[u].pc \in {"log_empty", "post"}

(* The batch task u has selected begins with the batch of task t, in its    *)
(* order.                                                                   *)
ReselectsFirst(t, u) ==
    /\ Len(cyc'[u].readings) >= Len(cyc[t].readings)
    /\ SubSeq(cyc'[u].readings, 1, Len(cyc[t].readings)) = cyc[t].readings

(* The batch task u has selected holds every record of the batch of task t, *)
(* each ahead of every record that was not in that batch.                   *)
ReselectsAll(t, u) ==
    LET failed == Range(cyc[t].readings)
        b == cyc'[u].readings
    IN  /\ failed \subseteq Range(b)
        /\ \A k, l \in DOMAIN b :
                b[k] \in failed /\ b[l] \notin failed => k < l

TimestampsNonDecreasing(rs) ==
    \A i, j \in DOMAIN rs : i < j => rs[i].timestamp <= rs[j].timestamp

TimestampsIncreasing(rs) ==
    \A i, j \in DOMAIN rs : i < j => rs[i].timestamp < rs[j].timestamp

(* C25 as claimed: with timestamps non-decreasing in insertion order, the   *)
(* cycle after an exhausted one selects every record of the failed batch    *)
(* again, ahead of the other records.                                       *)
C25_ReselectedNonDecreasing ==
    [][\A t, u \in Tasks :
        SelectsAfterExhausted(t, u) /\ TimestampsNonDecreasing(vital_readings)
            => ReselectsAll(t, u)]_vars

(* C25: when the timestamps of the records grow strictly in insertion       *)
(* order, the select of the cycle that follows a cycle ended with all       *)
(* retries exhausted returns every record of the failed batch again, in the *)
(* same order and before every other record.                                *)
C25_ReselectedOldestFirst ==
    [][\A t, u \in Tasks :
        SelectsAfterExhausted(t, u) /\ TimestampsIncreasing(vital_readings)
            => ReselectsFirst(t, u) /\ ReselectsAll(t, u)]_vars

(* The periodic cycle failed with a full batch; a third record was inserted *)
(* with a later timestamp; the manual cycle has selected the failed batch   *)
(* again and not the third record.                                          *)
C25_Witness ==
    /\ cyc["periodic"].pc = "returned" /\ LoopExhausted(cyc["periodic"])
    /\ cyc["periodic"].n = 1 /\ cyc["manual"].n = 1
    /\ cyc["manual"].pc = "post" /\ cyc["manual"].trace = <<>>
    /\ cyc["periodic"].readings = <<1, 2>>
    /\ cyc["manual"].readings = <<1, 2>>
    /\ Len(vital_readings) = 3
    /\ TimestampsIncreasing(vital_readings)
    /\ \A i \in DOMAIN vital_readings : ~vital_readings[i].synced

(* The sync fields of some record change in this step. *)
SyncFieldsChange ==
    \E i \in Rows : vital_readings'[i] # vital_readings[i]

(* C26: until its commit a cycle has marked no record; the sync fields of   *)
(* records change only by the commit of one cycle, which marks every record *)
(* of the batch of that cycle in the one step and no other record; a cycle  *)
(* that fails at the POST, the backoff, the update or the commit, or is     *)
(* cancelled at any of its awaits, changes no record in that step, and the  *)
(* cancellation writes and removes no audit entry: the cancelled cycle has  *)
(* marked its whole batch and lacks its audit entry, or has marked nothing. *)
C26_MarkSyncedAllOrNothing ==
    /\ [](\A t \in Tasks :
            cyc[t].pc \in InCycle \ {"log"} => MarkedBy(Inv(t)) = {})
    /\ [][/\ SyncFieldsChange
                => \E t \in Tasks :
                    /\ cyc[t].pc = "commit" /\ cyc'[t].pc = "log"
                    /\ cyc'[t].error_msg = cyc[t].error_msg
                    /\ \A i \in Rows :
                        vital_readings'[i] =
                            IF i \in Range(cyc[t].readings)
                            THEN [vital_readings[i] EXCEPT !.synced = TRUE,
                                                           !.synced_at = {Inv(t)}]
                            ELSE vital_readings[i]
          /\ \A t \in Tasks :
                /\ cyc[t].pc \in InCycle /\ cyc'[t].pc = "cancelled"
                    => /\ vital_readings' = vital_readings
                       /\ sync_logs' = sync_logs
                       /\ cyc[t].pc # "log" => MarkedBy(Inv(t)) = {}
                /\ cyc[t].pc \in {"post", "backoff", "update", "commit"}
                   /\ cyc'[t].error_msg \in {ExcPost, ExcUpdate, ExcCommit}
                    => vital_readings' = vital_readings /\ MarkedBy(Inv(t)) = {}]_vars

(* The periodic cycle was cancelled at its audit write: both records of its *)
(* batch are marked by it and it has no audit entry.                        *)
C26_Witness ==
    /\ cyc["periodic"].pc = "cancelled" /\ cyc["periodic"].n = 1
    /\ MarkedBy(<<"periodic", 1>>) = {1, 2}
    /\ Len(vital_readings) = 3 /\ ~vital_readings[3].synced
    /\ EntriesOf(<<"periodic", 1>>) = {}

(* The content fields of a record (the model keeps the capture timestamp). *)
Content(r) == r.timestamp

(* C28: a step of a sync cycle inserts and deletes no record and changes    *)
(* no content field and no patient; a step of the collection loop or of     *)
(* start_collection and stop_collection changes no existing record and no   *)
(* audit entry, and at most appends one unsynced record; the audit log      *)
(* changes only by a cycle appending its own entry; no step removes a       *)
(* record or an audit entry or changes the content of a record.             *)
C28_WritersDisjoint ==
    [][/\ Len(vital_readings') >= Len(vital_readings)
       /\ Len(sync_logs') >= Len(sync_logs)
       /\ \A i \in Rows : Content(vital_readings'[i]) = Content(vital_readings[i])
       /\ cyc' # cyc
            => /\ Len(vital_readings') = Len(vital_readings)
               /\ patients' = patients
       /\ coll' # coll
            => /\ sync_logs' = sync_logs
               /\ \A i \in Rows : vital_readings'[i] = vital_readings[i]
               /\ Len(vital_readings') <= Len(vital_readings) + 1
               /\ \A i \in DOMAIN vital_readings' \ Rows :
                    ~vital_readings'[i].synced /\ vital_readings'[i].synced_at = {}
       /\ vital_readings' # vital_readings => cyc' # cyc \/ coll' # coll
       /\ sync_logs' # sync_logs
            => \E t \in Tasks :
                /\ cyc[t].pc \in {"log_empty", "log"} /\ cyc'[t].pc # cyc[t].pc
                /\ Len(sync_logs') = Len(sync_logs) + 1
                /\ SubSeq(sync_logs', 1, Len(sync_logs)) = sync_logs
                /\ sync_logs'[Len(sync_logs')].inv = Inv(t)]_vars

(* Both writers have acted on the store: the first record was marked by a   *)
(* periodic cycle that wrote its audit entry, the loop has inserted a       *)
(* second record since and is running.                                      *)
C28_Witness ==
    /\ life.pc = "running" /\ coll.loop = "sleep"
    /\ Len(vital_readings) = 2
    /\ vital_readings[1].synced /\ ~vital_readings[2].synced
    /\ EntriesOf(<<"periodic", 1>>) # {}
    /\ cyc["periodic"].pc = "returned"

(* The columns of a record that are its content, and its sync state. *)
ContentFields ==
    {"timestamp", "heart_rate", "spo2", "temperature", "blood_pressure_sys",
     "blood_pressure_dia", "respiratory_rate", "ppg_raw"}
SyncStateFields == {"synced", "synced_at"}

(* Entry e carries the uuid of record r and every column of cols that r    *)
(* has a value in, the timestamp as its text.                               *)
EntryCarries(e, r, cols) ==
    /\ "uuid" \in DOMAIN e /\ e.uuid = r.uuid
    /\ \A c \in cols :
        (c = "timestamp" \/ r[c] # {}) =>
            /\ c \in DOMAIN e
            /\ e[c] = IF c = "timestamp" THEN IsoFormat(r[c]) ELSE r[c]

(* The payload has the device id, a batch timestamp and one entry per       *)
(* record of the batch, in the order of the batch, with the columns cols    *)
(* and no sync state.                                                       *)
PayloadCarries(cols) ==
    payload # NoPayload =>
        LET b == cyc["periodic"].readings IN
        /\ payload.device_id = DEVICE_ID
        /\ \E now \in Timestamps : payload.batch_timestamp = IsoFormat(now)
        /\ DOMAIN payload.readings = DOMAIN b
        /\ \A k \in DOMAIN b :
            /\ EntryCarries(payload.readings[k], vital_readings[b[k]], cols)
            /\ DOMAIN payload.readings[k] \cap SyncStateFields = {}

(* C30 as claimed: the payload has the device id, a batch timestamp and     *)
(* exactly one entry per selected record, in selection order, with the      *)
(* uuid, the capture timestamp, the six vitals and the raw waveform of the  *)
(* record and without synced and synced_at.                                 *)
C30_PayloadCarriesContent == PayloadCarries(ContentFields)

(* C35 as claimed: a stop_collection call that found the loop task ended by *)
(* an error of its own has, when it ends, returned without raising, called  *)
(* shutdown() once and cleared _collection_task and _active_reader.         *)
C35_StopReleasesAfterLoopError ==
    coll.loop = "failed" /\ coll.call \in {"stop_returned", "stop_raised"}
        => /\ coll.call = "stop_returned"
           /\ coll.shutdowns = 1
           /\ coll.collection_task = None
           /\ get_sensor_reader = None

(* The loop tasks that have not ended. *)
LoopsAlive == (IF coll.loop \in Running THEN 1 ELSE 0) + Len(coll.untracked)

(* C36 as claimed: over any sequence of start_collection and                *)
(* stop_collection calls at most one loop task is alive, no loop task runs  *)
(* untracked, and when a stop_collection has returned every reader that was *)
(* started has been shut down.                                              *)
C36_AtMostOneLoop ==
    /\ LoopsAlive <= 1
    /\ coll.untracked = <<>>
    /\ coll.call = "stop_returned" => coll.unreleased = 0

(* C32: a call of sync_now that returns, from the early audit write of the  *)
(* empty-batch path or from the audit write at the end, has appended one    *)
(* audit entry in the step of its return, and the SyncResult it returns has *)
(* the status, the records_sent, the error detail and the duration of that  *)
(* entry.                                                                   *)
C32_ResultAgreesWithAudit ==
    [][\A t \in Tasks :
        cyc[t].pc \in {"log_empty", "log"} /\ cyc'[t].pc = "returned"
            => /\ Len(sync_logs') = Len(sync_logs) + 1
               /\ LET e == sync_logs'[Len(sync_logs')]
                      r == cyc'[t].result
                  IN  /\ e.inv = Inv(t)
                      /\ e.status = r.status
                      /\ e.records_sent = r.records_sent
                      /\ e.error_message = r.error
                      /\ e.duration_ms = r.duration_ms]_vars

(* A call whose early audit write raised has returned a failed result with  *)
(* the detail of that exception and a duration that is not 0, and its audit *)
(* entry says the same.                                                     *)
C32_Witness ==
    \E t \in Tasks :
        /\ cyc[t].pc = "returned"
        /\ cyc[t].result.status = "failed"
        /\ cyc[t].result.error = ExcLogEmpty
        /\ cyc[t].result.duration_ms = 2
        /\ cyc[t].readings = <<>>
        /\ Len(sync_logs) = 1
        /\ sync_logs[1].duration_ms = 2

(* The sum of records_sent over the audit entries with status success. *)
RECURSIVE SumSent(_)
SumSent(log) ==
    IF log = <<>> THEN 0
    ELSE (IF Head(log).status = "success" THEN Head(log).records_sent ELSE 0)
            + SumSent(Tail(log))

NumSynced == Cardinality({i \in Rows : vital_readings[i].synced})

(* No call of sync_now is in progress. *)
NoCycleInProgress == \A t \in Tasks : cyc[t].pc \notin InCycle

(* Only the periodic task has called sync_now (its calls follow one another) *)
(* and it was not cancelled.                                                 *)
PeriodicOnlyNotCancelled == cyc["manual"].n = 0 /\ cyc["periodic"].pc # "cancelled"

(* Every call that has ended has written an audit entry. *)
AllAudited ==
    \A t \in Tasks : \A k \in 1..cyc[t].n :
        HasEnded(t, k) => EntriesOf(<<t, k>>) # {}

FailedEntriesCountZero ==
    \A i \in DOMAIN sync_logs :
        sync_logs[i].status = "failed" => sync_logs[i].records_sent = 0

(* A failed entry counts 0 unless the batch was delivered and the update   *)
(* or the commit that follows raised.                                      *)
FailedEntriesCountZeroOrDelivered ==
    \A i \in DOMAIN sync_logs :
        sync_logs[i].status = "failed"
            => \/ sync_logs[i].records_sent = 0
               \/ sync_logs[i].error_message \in {ExcUpdate, ExcCommit}

PendingSent(t) ==
    IF cyc[t].pc = "log" /\ cyc[t].status = "success" THEN cyc[t].records_sent ELSE 0

(* The accounting at any point of a run of cycles that do not overlap: the *)
(* batch of the cycle in progress is unsynced until its commit, and the    *)
(* success entries with the committed cycle awaiting its audit write count *)
(* the synced records.                                                     *)
Accounting ==
    /\ SumSent(sync_logs) + PendingSent("periodic") + PendingSent("manual") = NumSynced
    /\ \A t \in Tasks :
            cyc[t].pc \in SelectedNotCommitted
                => \A i \in Range(cyc[t].readings) : ~vital_readings[i].synced
    /\ FailedEntriesCountZeroOrDelivered

(* A step in which at most one call of sync_now is in progress before and  *)
(* after, no call is cancelled and no final audit write raises.            *)
SequentialAuditedStep ==
    /\ Cardinality({t \in Tasks : cyc[t].pc \in InCycle}) <= 1
    /\ Cardinality({t \in Tasks : cyc'[t].pc \in InCycle}) <= 1
    /\ \A t \in Tasks :
            /\ ~(cyc[t].pc # "cancelled" /\ cyc'[t].pc = "cancelled")
            /\ ~(cyc[t].pc = "log" /\ cyc'[t].pc = "raised")

Attempts == {k \in DOMAIN cyc["periodic"].trace : cyc["periodic"].trace[k][1] = "post"}

(* The body carries the rows of the batch, in the order of the selection. *)
BodyCarriesBatch(content, b) ==
    /\ content[1] = "json"
    /\ content[2].batch_timestamp = payload.batch_timestamp
    /\ DOMAIN content[2].readings = DOMAIN b
    /\ \A k \in DOMAIN b : content[2].readings[k].uuid = vital_readings[b[k]].uuid

(* C34: every delivery attempt of a cycle sends the same body and the same *)
(* headers; the body is the text of the payload built from the selected    *)
(* batch, with its one batch timestamp; the X-Signature header is the HMAC *)
(* of exactly the body that is sent; body and headers are assigned once,   *)
(* before the first attempt, and rows inserted or marked synced by others  *)
(* in between change none of them.                                         *)
C34_SameRequestEveryAttempt ==
    /\ [](\A k \in Attempts :
            LET sent == cyc["periodic"].trace[k] IN
            /\ \A l \in Attempts :
                    /\ cyc["periodic"].trace[l][2] = sent[2]
                    /\ cyc["periodic"].trace[l][3] = sent[3]
            /\ sent[2] = JsonDumps(payload)
            /\ BodyCarriesBatch(sent[2], cyc["periodic"].readings)
            /\ sent[3].XSignature = _sign_payload(sent[2], CENTRAL_API_KEY))
    /\ [][input' # input => input = NoInput /\ cyc["periodic"].trace = <<>>]_vars

(* Three attempts were made with two backoff sleeps between them; the one  *)
(* record of the batch was marked synced by another cycle and a row was    *)
(* inserted after the selection (the batch had room for it).               *)
C34_Witness ==
    /\ Cardinality(Attempts) = 3
    /\ Len(cyc["periodic"].trace) = 5
    /\ cyc["periodic"].readings = <<1>>
    /\ vital_readings[1].synced
    /\ Len(vital_readings) = 2
    /\ ~vital_readings[2].synced

(* C31: once the remote accepts every batch and no store operation fails,  *)
(* every record the collection loop has persisted, before or after that    *)
(* point and whatever failed before it, is eventually marked synced by the *)
(* periodic task, with at most SYNC_BATCH_SIZE records inserted per sync   *)
(* period.                                                                 *)
C31_EveryRecordEventuallySynced ==
    \A i \in 1..MaxRecords :
        (Healthy /\ i \in DOMAIN vital_readings)
            ~> (i \in DOMAIN vital_readings /\ vital_readings[i].synced)

(* The remote refused a batch twice and then accepted it on the third      *)
(* attempt of the same cycle; every record, more than one batch holds, is  *)
(* synced.                                                                 *)
C31_Witness ==
    /\ Healthy
    /\ Len(vital_readings) = MaxRecords
    /\ MaxRecords > SYNC_BATCH_SIZE
    /\ \A i \in DOMAIN vital_readings : vital_readings[i].synced
    /\ cyc["periodic"].pc = "returned"
    /\ Len(cyc["periodic"].trace) = 5
    /\ sync_logs # <<>>
    /\ sync_logs[Len(sync_logs)].status = "success"

====
